---- MODULE Spec2Model ----
(***************************************************************************)
(* FBJWTClient (src/lib/fb-jwt-client.js): the error classifier            *)
(* handleRequestError / throwRequestError and the dispatch pipeline send,  *)
(* with the hooks send wires into the transport (got 9).                   *)
(*                                                                         *)
(* JavaScript values are tagged records, so that a number, a string, an    *)
(* object and undefined can be told apart and compared.                    *)
(***************************************************************************)
EXTENDS Integers, Sequences, FiniteSets, TLC

VARIABLES ErrorClass, calls, input, outs

vars == <<ErrorClass, calls, input, outs>>

(* ------------------------------------------------------------------ *)
(* Bounds                                                             *)
(* ------------------------------------------------------------------ *)

\* Longest response body, in characters.
MaxBodyLen == 2
\* Most retries the transport's retry policy grants one call.
MaxRetries == 2
\* How many times in a row the classifier is applied to its own output.
MaxRehandle == 2

(* ------------------------------------------------------------------ *)
(* JavaScript values                                                  *)
(* ------------------------------------------------------------------ *)

Undef == [t |-> "undefined"]
Num(n) == [t |-> "number", v |-> n]
Str(s) == [t |-> "string", v |-> s]
\* A string kept as its characters (response bodies: trimmed and parsed).
Text(cs) == [t |-> "text", chars |-> cs]
\* An object with (possibly undefined) name and code properties.
Obj(name, code) == [t |-> "object", name |-> name, code |-> code]

True == [t |-> "boolean", v |-> TRUE]

\* typeof x === 'object'
IsObject(x) == x.t = "object"

\* ToBoolean(x): undefined, 0 and '' are falsy.
Truthy(x) ==
  CASE x.t = "undefined" -> FALSE
    [] x.t = "number" -> x.v # 0
    [] x.t = "string" -> x.v # ""
    [] x.t = "text" -> x.chars # <<>>
    [] OTHER -> TRUE

\* a || b
Or(a, b) == IF Truthy(a) THEN a ELSE b

\* o.name / o.code: undefined unless o is an object holding it.
PropName(o) == IF IsObject(o) THEN o.name ELSE Undef
PropCode(o) == IF IsObject(o) THEN o.code ELSE Undef

(* ------------------------------------------------------------------ *)
(* Errors                                                             *)
(* ------------------------------------------------------------------ *)

\* The default error class and a class passed to the constructor.
DefaultErrorClass == "FBJWTClientError"
ErrorClasses == {DefaultErrorClass, "CustomError"}

\* ref is the object's identity; 0 marks an object that has just been
\* constructed and has not been given its identity yet.
MkError(ref, name, code, message, statusCode, body, error, response) ==
  [ref |-> ref, name |-> name, code |-> code, message |-> message,
   statusCode |-> statusCode, body |-> body, error |-> error,
   response |-> response, retryCount |-> Undef, statusMessage |-> Undef]

NoError == MkError(0, Undef, Undef, Undef, Undef, Undef, Undef, Undef)

\* What a call of a function did: it threw err, it returned value, or it
\* has not completed yet.
Thrown(e) == [kind |-> "throw", err |-> e, value |-> Undef]
Returned(v) == [kind |-> "return", err |-> NoError, value |-> v]
Pending == [kind |-> "pending", err |-> NoError, value |-> Undef]

throwRequestErrorNoDefault(code, message) ==
  Thrown(MkError(0, Str(ErrorClass), code, message, Undef, Undef, Undef, Undef))

\* throwRequestError (code, message): message = message || code;
\* throw new this.ErrorClass({error: {code, message}})
throwRequestError(code, message) ==
  Thrown(MkError(0, Str(ErrorClass), code, Or(message, code), Undef, Undef, Undef, Undef))

getErrorStatusCodeSwapped(message) ==
  IF message = Str("ENOTFOUND") THEN 503
  ELSE IF message = Str("ECONNREFUSED") THEN 502
  ELSE 500

\* getErrorStatusCode: 502 for ENOTFOUND, 503 for ECONNREFUSED, else 500.
getErrorStatusCode(message) ==
  IF message = Str("ENOTFOUND") THEN 502
  ELSE IF message = Str("ECONNREFUSED") THEN 503
  ELSE 500

normalizeBodyKeepsError(err) ==
  IF Truthy(err.body) /\ IsObject(err.body) /\ ~Truthy(err.error)
  THEN [err EXCEPT !.error = err.body]
  ELSE err

\* if (err.body) { if (typeof err.body === 'object') { err.error = err.body } }
normalizeBody(err) ==
  IF Truthy(err.body) /\ IsObject(err.body)
  THEN [err EXCEPT !.error = err.body]
  ELSE err

errorObjMessageCodeFirst(errorObj) ==
  Or(Or(PropCode(errorObj), PropName(errorObj)), Str("EUNSPECIFIED"))

\* err.error.name || err.error.code || 'EUNSPECIFIED'
errorObjMessage(errorObj) ==
  Or(Or(PropName(errorObj), PropCode(errorObj)), Str("EUNSPECIFIED"))

classifyWithout404(err) ==
  LET e == normalizeBody(err)
      statusCode == e.statusCode
  IN IF Truthy(statusCode)
     THEN LET message == IF Truthy(e.error)
                         THEN errorObjMessage(e.error)
                         ELSE Undef
          IN throwRequestError(statusCode, message)
     ELSE IF Truthy(e.error)
          THEN LET message == errorObjMessage(e.error)
               IN throwRequestError(Num(getErrorStatusCode(message)), message)
          ELSE LET message == Or(e.code, Str("ENOERROR"))
               IN throwRequestError(Num(getErrorStatusCode(message)), message)

classifyBareCodeUnspecified(err) ==
  LET e == normalizeBody(err)
      statusCode == e.statusCode
  IN IF Truthy(statusCode)
     THEN IF statusCode = Num(404)
          THEN throwRequestError(Num(404), Undef)
          ELSE LET message == IF Truthy(e.error)
                              THEN errorObjMessage(e.error)
                              ELSE Undef
               IN throwRequestError(statusCode, message)
     ELSE IF Truthy(e.error)
          THEN LET message == errorObjMessage(e.error)
               IN throwRequestError(Num(getErrorStatusCode(message)), message)
          ELSE LET message == Or(e.code, Str("EUNSPECIFIED"))
               IN throwRequestError(Num(getErrorStatusCode(message)), message)

\* handleRequestError after its first test (the error is not the client's
\* own): the body normalised, then the three tiers statusCode, error
\* object, bare code.
classify(err) ==
  LET e == normalizeBody(err)
      statusCode == e.statusCode
  IN IF Truthy(statusCode)
     THEN IF statusCode = Num(404)
          THEN throwRequestError(Num(404), Undef)
          ELSE LET message == IF Truthy(e.error)
                              THEN errorObjMessage(e.error)
                              ELSE Undef
               IN throwRequestError(statusCode, message)
     ELSE IF Truthy(e.error)
          THEN LET message == errorObjMessage(e.error)
               IN throwRequestError(Num(getErrorStatusCode(message)), message)
          ELSE LET message == Or(e.code, Str("ENOERROR"))
               IN throwRequestError(Num(getErrorStatusCode(message)), message)

handleRequestErrorAlwaysWraps(err) == classify(err)

handleRequestErrorReturnsOn404(err) ==
  IF err.name = Str(ErrorClass) THEN Thrown(err)
  ELSE IF err.statusCode = Num(404) THEN Returned(Undef)
  ELSE classify(err)

\* handleRequestError (err): an error that carries the configured class's
\* name is rethrown as it is; every other one is classified and thrown anew.
handleRequestError(err) ==
  IF err.name = Str(ErrorClass) THEN Thrown(err) ELSE classify(err)

(* ------------------------------------------------------------------ *)
(* The constructor                                                    *)
(* ------------------------------------------------------------------ *)

\* A client instance: the fields the constructor assigns, the two metrics
\* recorders being its own default ones.
Client(serviceSecret, serviceToken, serviceSlug, microserviceUrl) ==
  [t |-> "client", serviceSecret |-> serviceSecret, serviceToken |-> serviceToken,
   serviceUrl |-> microserviceUrl, serviceSlug |-> serviceSlug,
   apiMetrics |-> "defaultMetrics", requestMetrics |-> "defaultMetrics"]

setMetricsInstrumentationAndUrl(client, apiMetrics, requestMetrics) ==
  [client EXCEPT !.apiMetrics = apiMetrics, !.requestMetrics = requestMetrics,
                 !.serviceUrl = Str(requestMetrics)]

\* setMetricsInstrumentation (apiMetrics, requestMetrics)
setMetricsInstrumentation(client, apiMetrics, requestMetrics) ==
  [client EXCEPT !.apiMetrics = apiMetrics, !.requestMetrics = requestMetrics]

constructorChecksUrlFirst(serviceSecret, serviceToken, serviceSlug, microserviceUrl) ==
  IF ~Truthy(microserviceUrl)
  THEN throwRequestError(Str("ENOMICROSERVICEURL"), Str("No microservice url passed to client"))
  ELSE IF ~Truthy(serviceSecret)
  THEN throwRequestError(Str("ENOSERVICESECRET"), Str("No service secret passed to client"))
  ELSE IF ~Truthy(serviceToken)
  THEN throwRequestError(Str("ENOSERVICETOKEN"), Str("No service token passed to client"))
  ELSE IF ~Truthy(serviceSlug)
  THEN throwRequestError(Str("ENOSERVICESLUG"), Str("No service slug passed to client"))
  ELSE Returned(Client(serviceSecret, serviceToken, serviceSlug, microserviceUrl))

\* constructor (...) once this.ErrorClass is settled: the four checks in
\* their order, then the fields.
constructor(serviceSecret, serviceToken, serviceSlug, microserviceUrl) ==
  IF ~Truthy(serviceSecret)
  THEN throwRequestError(Str("ENOSERVICESECRET"), Str("No service secret passed to client"))
  ELSE IF ~Truthy(serviceToken)
  THEN throwRequestError(Str("ENOSERVICETOKEN"), Str("No service token passed to client"))
  ELSE IF ~Truthy(serviceSlug)
  THEN throwRequestError(Str("ENOSERVICESLUG"), Str("No service slug passed to client"))
  ELSE IF ~Truthy(microserviceUrl)
  THEN throwRequestError(Str("ENOMICROSERVICEURL"), Str("No microservice url passed to client"))
  ELSE Returned(Client(serviceSecret, serviceToken, serviceSlug, microserviceUrl))

\* What a caller passes for a required string, and for errorClass.
ArgValues == {Undef, Str(""), Str("value")}
ErrorClassArgs == {Undef, Str("CustomError")}

ConstructorArgs ==
  [serviceSecret : ArgValues, serviceToken : ArgValues, serviceSlug : ArgValues,
   microserviceUrl : ArgValues, errorClass : ErrorClassArgs]

(* ------------------------------------------------------------------ *)
(* Response bodies                                                    *)
(* ------------------------------------------------------------------ *)

Chars == {" ", "{", "}", "h"}
Bodies == UNION {[1..n -> Chars] : n \in 0..MaxBodyLen}

IsSpace(ch) == ch = " "

RECURSIVE TrimLeft(_)
TrimLeft(s) == IF s # <<>> /\ IsSpace(Head(s)) THEN TrimLeft(Tail(s)) ELSE s

RECURSIVE TrimRight(_)
TrimRight(s) ==
  IF s # <<>> /\ IsSpace(s[Len(s)])
  THEN TrimRight(SubSeq(s, 1, Len(s) - 1))
  ELSE s

\* String.prototype.trim
trim(s) == TrimRight(TrimLeft(s))

\* JSON.parse accepts, of the texts over Chars, an object without members
\* with white space around and inside it; it throws on every other text.
JSONValid(s) ==
  LET u == trim(s)
  IN /\ Len(u) >= 2
     /\ u[1] = "{"
     /\ u[Len(u)] = "}"
     /\ \A k \in 2..(Len(u) - 1) : IsSpace(u[k])

EmptyObject == Obj(Undef, Undef)
JSONParse(s) == EmptyObject

(* ------------------------------------------------------------------ *)
(* The transport's values                                             *)
(* ------------------------------------------------------------------ *)

\* A response: its status, its body, the status message the service sent
\* along (none with the tests' fake service) and, as a response has none,
\* no name.
Response(statusCode, body) ==
  [t |-> "response", statusCode |-> Num(statusCode), body |-> body,
   statusMessage |-> Undef, name |-> Undef]

\* http.STATUS_CODES[statusCode]
StatusText(statusCode) ==
  CASE statusCode = Num(200) -> Str("OK")
    [] statusCode = Num(404) -> Str("Not Found")
    [] statusCode = Num(503) -> Str("Service Unavailable")
    [] OTHER -> Undef

\* What the runtime throws when a hook calls a method of undefined or
\* calls something that is no function.
TypeError ==
  MkError(0, Str("TypeError"), Undef, Str("TypeError"), Undef, Undef, Undef, Undef)

\* got's HTTPError: the response's status, status message (the standard
\* one when the response has none) and body, the response attached.
HTTPError(response) ==
  [MkError(0, Str("HTTPError"), Undef, Str("Response code"),
           response.statusCode, response.body, Undef, response)
     EXCEPT !.statusMessage = Or(response.statusMessage, StatusText(response.statusCode))]

\* got's ParseError: the response's status and the standard status
\* message, the response attached.
ParseError(response) ==
  [MkError(0, Str("ParseError"), Undef, Str("Unexpected token"),
           response.statusCode, Undef, Undef, response)
     EXCEPT !.statusMessage = StatusText(response.statusCode)]

Statuses == {200, 404, 503}

\* Errors an attempt can fail with before any response arrives.
TransportErrors ==
  {MkError(1, name, code, Undef, statusCode, Undef, error, Undef) :
     name \in {Undef, Str("RequestError")},
     code \in {Undef, Str("ENOTFOUND")},
     statusCode \in {Undef, Num(401), Num(403)},
     error \in {Undef, Obj(Str("ECONNREFUSED"), Undef)}}

\* What one attempt ends with: a response or a failure, and whether the
\* retry policy would grant a retry of it.
Events ==
  {[kind |-> "response", response |-> Response(sc, Text(b)),
    error |-> NoError, retry |-> r] :
     sc \in Statuses, b \in Bodies, r \in BOOLEAN}
  \cup
  {[kind |-> "failure", response |-> Undef, error |-> e, retry |-> r] :
     e \in TransportErrors, r \in BOOLEAN}

NoEvent == [kind |-> "none", response |-> Undef, error |-> NoError, retry |-> FALSE]

(* ------------------------------------------------------------------ *)
(* createEndpointUrl                                                  *)
(* ------------------------------------------------------------------ *)

UrlPatterns == {"/route", "/user/:userId"}

\* The named placeholders of a pattern.
Placeholders(urlPattern) ==
  IF urlPattern = "/user/:userId" THEN {"userId"} ELSE {}

Contexts == SUBSET {"userId"}

\* this.serviceUrl, and the value the context holds for userId
ServiceUrl == "https://microservice"

\* toPath(context): the pattern with its placeholders filled in.
ToPath(urlPattern) ==
  IF urlPattern = "/user/:userId" THEN "/user/testUserId" ELSE urlPattern

\* createEndpointUrl (urlPattern, context): pathToRegexp's compiled
\* function throws a TypeError when the context lacks a placeholder.
createEndpointUrl(urlPattern, context) ==
  IF Placeholders(urlPattern) \subseteq context
  THEN Returned(Str(ServiceUrl \o ToPath(urlPattern)))
  ELSE Thrown(TypeError)

(* ------------------------------------------------------------------ *)
(* Payloads, tokens and request options                               *)
(* ------------------------------------------------------------------ *)

\* A payload object: its keys and (string) values in insertion order, keys
\* and values kept as their characters.
Data(kv) == [t |-> "data", kv |-> kv]

Payloads ==
  {Undef,
   Data(<<>>),
   Data(<< <<(<<"f", "o", "o">>), (<<"b", "a", "r">>)>> >>),
   Data(<< <<(<<"a">>), (<<"b">>)>>, <<(<<"b">>), (<<"a">>)>> >>)}

\* A payload the caller passes in sendOptions.body, unlike every payload.
ForeignBody == Data(<< <<(<<"a">>), (<<"a">>)>> >>)

\* data = {}: the parameter's default when the payload is undefined
DataOrEmpty(payload) == IF payload = Undef THEN Data(<<>>) ELSE payload

\* Object.keys(data).length
KeyCount(data) == Len(data.kv)

Quoted(cs) == <<"\"">> \o cs \o <<"\"">>

RECURSIVE Members(_)
Members(kv) ==
  IF kv = <<>> THEN <<>>
  ELSE Quoted(kv[1][1]) \o <<":">> \o Quoted(kv[1][2])
       \o (IF Len(kv) > 1 THEN <<",">> ELSE <<>>) \o Members(Tail(kv))

\* JSON.stringify(data), as its characters
JSONStringify(data) == <<"{">> \o Members(data.kv) \o <<"}">>

\* The character codes of the characters a serialized payload is made of.
CharCode(ch) ==
  CASE ch = "{" -> 123 [] ch = "}" -> 125 [] ch = "\"" -> 34
    [] ch = ":" -> 58 [] ch = "," -> 44
    [] ch = "a" -> 97 [] ch = "b" -> 98 [] ch = "f" -> 102
    [] ch = "o" -> 111 [] ch = "r" -> 114

Base64Alphabet ==
  <<"A", "B", "C", "D", "E", "F", "G", "H", "I", "J", "K", "L", "M",
    "N", "O", "P", "Q", "R", "S", "T", "U", "V", "W", "X", "Y", "Z",
    "a", "b", "c", "d", "e", "f", "g", "h", "i", "j", "k", "l", "m",
    "n", "o", "p", "q", "r", "s", "t", "u", "v", "w", "x", "y", "z",
    "0", "1", "2", "3", "4", "5", "6", "7", "8", "9", "+", "/">>

Sextet(n) == Base64Alphabet[(n % 64) + 1]

\* Base64 of a sequence of bytes: three bytes make four characters, and
\* the last one or two bytes are padded with '='.
RECURSIVE Base64Bytes(_)
Base64Bytes(bs) ==
  IF bs = <<>> THEN <<>>
  ELSE IF Len(bs) = 1
  THEN LET n == bs[1] * 65536
       IN <<Sextet(n \div 262144), Sextet(n \div 4096), "=", "=">>
  ELSE IF Len(bs) = 2
  THEN LET n == bs[1] * 65536 + bs[2] * 256
       IN <<Sextet(n \div 262144), Sextet(n \div 4096), Sextet(n \div 64), "=">>
  ELSE LET n == bs[1] * 65536 + bs[2] * 256 + bs[3]
       IN <<Sextet(n \div 262144), Sextet(n \div 4096), Sextet(n \div 64), Sextet(n)>>
          \o Base64Bytes(SubSeq(bs, 4, Len(bs)))

\* Buffer.from(string).toString('Base64')
Base64(cs) == Text(Base64Bytes([k \in 1..Len(cs) |-> CharCode(cs[k])]))

\* The SHA-256 digest of a string (taken to be free of collisions).
Sha256(cs) == [t |-> "sha256", of |-> cs]

\* generateAccessToken (data): a token signed with the service token that
\* holds the checksum of the serialized data.
generateAccessToken(data) ==
  [t |-> "jwt", checksum |-> Sha256(JSONStringify(data)), algorithm |-> "HS256"]

\* Options of the transport: the url, the x-access-token header, body,
\* searchParams, json and the retry policy; undefined where not set.
Options(url, token, body, searchParams, json, retry) ==
  [url |-> url, token |-> token, body |-> body, searchParams |-> searchParams,
   json |-> json, retry |-> retry]

NoOptions == Options(Undef, Undef, Undef, Undef, Undef, Undef)

\* got.defaults.options: the library's retry policy
GotDefaults == [NoOptions EXCEPT !.retry = Str("default")]

\* What a caller passes as sendOptions.
SendOptions ==
  {Undef,
   [NoOptions EXCEPT !.retry = Str("custom")],
   [NoOptions EXCEPT !.url = Str("http://elsewhere"), !.token = Str("forged"),
                     !.retry = Str("custom")],
   [NoOptions EXCEPT !.body = ForeignBody],
   [NoOptions EXCEPT !.searchParams = [payload |-> Base64(JSONStringify(ForeignBody))]]}

\* merge of two sources: what the later one sets wins, key by key.
merge(target, source) ==
  [k \in DOMAIN target |-> IF source[k] # Undef THEN source[k] ELSE target[k]]

mergeOptionsEarlierWins(sources) ==
  LET RECURSIVE Fold(_, _)
      Fold(acc, k) ==
        IF k > Len(sources) THEN acc
        ELSE Fold(merge(IF sources[k] = Undef THEN NoOptions ELSE sources[k], acc), k + 1)
  IN Fold(NoOptions, 1)

\* merge.options(...sources): an undefined source counts as {}; the
\* sources are merged from left to right.
mergeOptions(sources) ==
  LET RECURSIVE Fold(_, _)
      Fold(acc, k) ==
        IF k > Len(sources) THEN acc
        ELSE Fold(merge(acc, IF sources[k] = Undef THEN NoOptions ELSE sources[k]), k + 1)
  IN Fold(NoOptions, 1)

createRequestOptionsBodyAlways(urlPattern, context, payload, searchParams) ==
  LET data == DataOrEmpty(payload)
      accessToken == generateAccessToken(data)
      url == createEndpointUrl(urlPattern, context)
      hasData == KeyCount(data) # 0
  IN IF url.kind = "throw" THEN url
     ELSE Returned(Options(url.value, accessToken,
                           IF hasData THEN data ELSE Undef,
                           Undef, True, Undef))

createRequestOptionsBothChannels(urlPattern, context, payload, searchParams) ==
  LET data == DataOrEmpty(payload)
      accessToken == generateAccessToken(data)
      url == createEndpointUrl(urlPattern, context)
      hasData == KeyCount(data) # 0
  IN IF url.kind = "throw" THEN url
     ELSE Returned(Options(url.value, accessToken,
                           IF hasData THEN data ELSE Undef,
                           IF searchParams /\ hasData
                           THEN [payload |-> Base64(JSONStringify(data))]
                           ELSE Undef,
                           True, Undef))

\* createRequestOptions (urlPattern, context, data = {}, searchParams):
\* throws what createEndpointUrl throws.
createRequestOptions(urlPattern, context, payload, searchParams) ==
  LET data == DataOrEmpty(payload)
      accessToken == generateAccessToken(data)
      url == createEndpointUrl(urlPattern, context)
      hasData == KeyCount(data) # 0
  IN IF url.kind = "throw" THEN url
     ELSE Returned(Options(url.value, accessToken,
                           IF hasData /\ ~searchParams THEN data ELSE Undef,
                           IF searchParams /\ hasData
                           THEN [payload |-> Base64(JSONStringify(data))]
                           ELSE Undef,
                           True, Undef))

(* ------------------------------------------------------------------ *)
(* send: one invocation                                               *)
(* ------------------------------------------------------------------ *)

Methods == {"get", "post"}

\* A send invocation: its arguments, the variables of its closure
\* (requestMetricsEnd, 0 while undefined, and retryCounter), the timers it
\* started (reqEnds[k]: how often the end function of the k-th per-attempt
\* timer was called), what it logged, and where the transport stands
\* (attempts: the requests it has seen end; retryCount: its retry counter;
\* seen: the outcomes handed to it one call at a time), the method of the
\* client it was entered by, and the options it built: the request options
\* and what it handed to the transport. When the timers and the logger
\* keep their arguments (recording, as the stubs of the tests do),
\* calledWith holds them in the order of the calls.
NewCall(logger, method, url, context) ==
  [logger |-> logger, method |-> method, url |-> url, context |-> context,
   pc |-> "send",
   requestMetricsEnd |-> 0, retryCounter |-> 1,
   apiStarts |-> 0, apiEnds |-> 0, reqEnds |-> <<>>,
   log |-> <<>>, trace |-> <<>>,
   attempts |-> 0, retryCount |-> 0, ev |-> NoEvent,
   response |-> Undef, error |-> NoError,
   seen |-> <<>>,
   entry |-> "send", payload |-> Undef, sendOptions |-> Undef,
   options |-> Undef, gotOptions |-> Undef,
   recording |-> FALSE, calledWith |-> <<>>,
   result |-> Pending]

\* A label that is not in the label set (status_code can be in it and
\* undefined).
Absent == [t |-> "absent"]

getResponseLabelsAlwaysNamed(response) ==
  [status_code |-> response.statusCode,
   status_message |-> IF Truthy(response.statusMessage)
                      THEN response.statusMessage ELSE Absent,
   error_name |-> response.name]

\* getResponseLabels (response)
getResponseLabels(response) ==
  [status_code |-> response.statusCode,
   status_message |-> IF Truthy(response.statusMessage)
                      THEN response.statusMessage ELSE Absent,
   error_name |-> IF Truthy(response.name) THEN response.name ELSE Absent]

\* this.constructor.name
ClientName == "FBJWTClient"

labelsWithEndpoint(c) ==
  [client_name |-> ClientName, base_url |-> ServiceUrl,
   url |-> ServiceUrl \o ToPath(c.url), method |-> c.method]

\* const labels = {client_name, base_url, url, method}
labels(c) ==
  [client_name |-> ClientName, base_url |-> ServiceUrl,
   url |-> c.url, method |-> c.method]

\* What a timer's end function or the logger is told of the response or
\* error it is called for.
Told(x) == [statusCode |-> x.statusCode, statusMessage |-> x.statusMessage,
            name |-> x.name]

\* A function was called with arg (for the response or error of): kept
\* when the call is recording.
called(c, fn, arg, of) ==
  IF c.recording
  THEN [c EXCEPT !.calledWith = Append(@, [fn |-> fn, arg |-> arg, of |-> of])]
  ELSE c

\* this.requestMetrics.startTimer(labels), kept in requestMetricsEnd
startRequestTimer(c) ==
  [called(c, "requestMetrics.startTimer", labels(c), Undef) EXCEPT
     !.reqEnds = Append(@, 0),
     !.requestMetricsEnd = Len(c.reqEnds) + 1,
     !.trace = Append(@, "request.start")]

\* requestMetricsEnd(getResponseLabels(x))
endRequestTimer(c, x) ==
  [called(c, "requestMetricsEnd", getResponseLabels(x), Told(x)) EXCEPT
     !.reqEnds[c.requestMetricsEnd] = @ + 1,
     !.trace = Append(@, "request.end")]

\* this.apiMetrics.startTimer(labels)
startApiTimer(c) ==
  [called(c, "apiMetrics.startTimer", labels(c), Undef) EXCEPT
     !.apiStarts = @ + 1, !.trace = Append(@, "api.start")]

\* apiMetricsEnd(getResponseLabels(x))
endApiTimer(c, x) ==
  [called(c, "apiMetricsEnd", getResponseLabels(x), Told(x)) EXCEPT
     !.apiEnds = @ + 1, !.trace = Append(@, "api.end")]

\* `jwt_${type.toLowerCase()}_request_error`
errorType(type) ==
  IF type = "API" THEN "jwt_api_request_error" ELSE "jwt_client_request_error"

\* logError (type, e) with a logger: logger.error is given the labels,
\* the name of the error type and the error.
logError(c, type, e) ==
  [called(c, "logger.error",
          [name |-> errorType(type), client_name |-> ClientName,
           base_url |-> ServiceUrl, url |-> c.url, method |-> c.method],
          Told(e)) EXCEPT
     !.log = Append(@, type), !.trace = Append(@, type)]

sendCallTimerFirst(c) ==
  LET options == createRequestOptions(c.url, c.context, c.payload, c.method = "get")
  IN IF options.kind = "throw"
     THEN [startApiTimer(c) EXCEPT !.pc = "done", !.result = options]
     ELSE [startApiTimer(c) EXCEPT
             !.options = options.value,
             !.gotOptions = mergeOptions(<<GotDefaults, c.sendOptions, options.value>>),
             !.pc = "beforeRequest"]

\* send up to its await: the request options are built outside the try
\* block, so what building them throws leaves send as it is; the
\* transport's options are merged from the library's defaults (with the
\* hooks, which set none of the options kept here), sendOptions and the
\* request options; then the per-call timer is started and the transport
\* is called.
sendCall(c) ==
  LET options == createRequestOptions(c.url, c.context, c.payload, c.method = "get")
  IN IF options.kind = "throw"
     THEN [c EXCEPT !.pc = "done", !.result = options]
     ELSE [startApiTimer(c) EXCEPT
             !.options = options.value,
             !.gotOptions = mergeOptions(<<GotDefaults, c.sendOptions, options.value>>),
             !.pc = "beforeRequest"]

sendGetAsPost(c) == sendCall([c EXCEPT !.method = "post"])

\* sendGet (args, logger): return this.send('get', args, logger)
sendGet(c) == sendCall([c EXCEPT !.method = "get"])

\* sendPost (args, logger): return this.send('post', args, logger)
sendPost(c) == sendCall([c EXCEPT !.method = "post"])

\* hooks.beforeRequest
beforeRequest(c) ==
  [startRequestTimer(c) EXCEPT !.pc = "inflight"]

\* The transport after an attempt failed with error e: it asks the retry
\* policy, and runs beforeRetry (a retry) or beforeError (no retry).
retryOrFail(c, e) ==
  IF c.ev.retry /\ c.retryCount < MaxRetries
  THEN [c EXCEPT !.error = e, !.retryCount = @ + 1, !.pc = "beforeRetry"]
  ELSE [c EXCEPT !.error = e, !.pc = "beforeError"]

\* The transport hands the attempt's outcome to the call.
deliver(c, ev) ==
  IF ev.kind = "response"
  THEN [c EXCEPT !.ev = ev, !.attempts = @ + 1, !.response = ev.response,
                 !.pc = "afterResponse"]
  ELSE retryOrFail([c EXCEPT !.ev = ev, !.attempts = @ + 1], ev.error)

beforeRetryKeepsTimer(c) ==
  LET c1 == [c EXCEPT !.error.retryCount = Num(c.retryCount),
                      !.retryCounter = c.retryCount]
  IN IF ~c1.logger
     THEN [c1 EXCEPT !.error = TypeError, !.pc = "beforeError"]
     ELSE LET c2 == logError(c1, "client", c1.error)
          IN [startRequestTimer(c2) EXCEPT !.error = NoError,
                                           !.response = Undef,
                                           !.ev = NoEvent,
                                           !.pc = "inflight"]

\* hooks.beforeRetry. Without a logger logError throws a TypeError (it
\* calls logger.error); the transport catches what a beforeRetry hook
\* throws and passes it on as the call's error (beforeError, then reject).
\* The failed attempt's error object is dropped once the retry is on.
beforeRetry(c) ==
  LET c1 == [c EXCEPT !.error.retryCount = Num(c.retryCount),
                      !.retryCounter = c.retryCount]
  IN IF ~c1.logger
     THEN [c1 EXCEPT !.error = TypeError, !.pc = "beforeError"]
     ELSE LET c2 == logError(c1, "client", c1.error)
              c3 == IF c2.requestMetricsEnd # 0
                    THEN endRequestTimer(c2, c1.error)
                    ELSE c2
          IN [startRequestTimer(c3) EXCEPT !.error = NoError,
                                           !.response = Undef,
                                           !.ev = NoEvent,
                                           !.pc = "inflight"]

beforeErrorKeepsTimer(c) ==
  [c EXCEPT !.error.retryCount = Num(c.retryCounter), !.pc = "rejected"]

\* hooks.beforeError: the error it returns is what the transport rejects
\* with; if the hook itself throws, the transport rejects with that.
beforeError(c) ==
  LET c1 == [c EXCEPT !.error.retryCount = Num(c.retryCounter)]
  IN IF c1.requestMetricsEnd = 0
     THEN [c1 EXCEPT !.error = TypeError, !.pc = "rejected"]
     ELSE [endRequestTimer(c1, c1.error) EXCEPT !.pc = "rejected"]

afterResponseKeepsBody(c) ==
  IF c.response.statusCode.v >= 400 /\ ~c.logger
  THEN [c EXCEPT !.error = TypeError, !.pc = "beforeError"]
  ELSE LET c1 == IF c.response.statusCode.v >= 400
                 THEN logError(c, "client", c.response)
                 ELSE c
           c2 == endRequestTimer(c1, c.response)
       IN [c2 EXCEPT !.pc = "settle"]

\* hooks.afterResponse. For a status >= 400 it logs first, which throws
\* without a logger; the transport passes what the hook throws on as the
\* call's error (beforeError, then reject).
afterResponse(c) ==
  IF c.response.statusCode.v >= 400 /\ ~c.logger
  THEN [c EXCEPT !.error = TypeError, !.pc = "beforeError"]
  ELSE LET c1 == IF c.response.statusCode.v >= 400
                 THEN logError(c, "client", c.response)
                 ELSE c
           c2 == endRequestTimer(c1, c.response)
       IN [c2 EXCEPT !.response.body = Or(c.response.body, Text(<<"{", "}">>)),
                     !.pc = "settle"]

\* The transport after the afterResponse hooks (json: true): a truthy
\* body is parsed; a body that does not parse fails the call with a
\* ParseError when the status is 2xx and is left as it is otherwise; a
\* status outside 2xx fails the attempt with an HTTPError; else the call
\* resolves with the response.
settle(c) ==
  LET r == c.response
      sc == r.statusCode.v
      parses == Truthy(r.body) /\ JSONValid(r.body.chars)
      parsed == IF parses THEN [r EXCEPT !.body = JSONParse(r.body.chars)] ELSE r
  IN IF Truthy(r.body) /\ ~parses /\ sc >= 200 /\ sc < 300
     THEN [c EXCEPT !.error = ParseError(r), !.pc = "beforeError"]
     ELSE IF sc < 200 \/ sc > 299
          THEN retryOrFail([c EXCEPT !.response = parsed], HTTPError(parsed))
          ELSE [c EXCEPT !.response = parsed, !.pc = "resolved"]

\* send after the await returned: apiMetricsEnd(...); return response.body
sendResolved(c) ==
  [endApiTimer(c, c.response) EXCEPT
     !.result = Returned(c.response.body), !.pc = "done"]

sendCatchAwaitsAgain(c) == [c EXCEPT !.pc = "rejected"]

sendCatchToleratesAnyStatus(c) ==
  LET response == c.error.response
      tolerated == Truthy(response) /\ Truthy(response.body)
  IN IF tolerated /\ IsObject(response.body)
     THEN [c EXCEPT !.result = Thrown(TypeError), !.pc = "done"]
     ELSE IF tolerated /\ trim(response.body.chars) = <<>>
     THEN [endRequestTimer(c, response) EXCEPT
             !.result = Returned(EmptyObject), !.pc = "done"]
     ELSE LET c1 == endApiTimer(c, c.error)
              c2 == IF c1.logger THEN logError(c1, "API", c.error) ELSE c1
              c3 == [c2 EXCEPT !.trace = Append(@, "handleRequestError")]
          IN [c3 EXCEPT !.result = handleRequestError(c.error), !.pc = "done"]

sendCatchLogsFirst(c) ==
  LET response == c.error.response
      tolerated == Truthy(response) /\ response.statusCode.v < 300
                   /\ Truthy(response.body)
  IN IF tolerated /\ IsObject(response.body)
     THEN [c EXCEPT !.result = Thrown(TypeError), !.pc = "done"]
     ELSE IF tolerated /\ trim(response.body.chars) = <<>>
     THEN [endRequestTimer(c, response) EXCEPT
             !.result = Returned(EmptyObject), !.pc = "done"]
     ELSE LET c1 == IF c.logger THEN logError(c, "API", c.error) ELSE c
              c2 == endApiTimer(c1, c.error)
              c3 == [c2 EXCEPT !.trace = Append(@, "handleRequestError")]
          IN [c3 EXCEPT !.result = handleRequestError(c.error), !.pc = "done"]

\* send's catch block. An attached response with a status < 300 and a
\* truthy body that trims to nothing makes send return {} (an object body
\* has no trim: a TypeError leaves send); every other error stops the
\* per-call timer, is logged when there is a logger, and is classified.
sendCatch(c) ==
  LET response == c.error.response
      tolerated == Truthy(response) /\ response.statusCode.v < 300
                   /\ Truthy(response.body)
  IN IF tolerated /\ IsObject(response.body)
     THEN [c EXCEPT !.result = Thrown(TypeError), !.pc = "done"]
     ELSE IF tolerated /\ trim(response.body.chars) = <<>>
     THEN [endRequestTimer(c, response) EXCEPT
             !.result = Returned(EmptyObject), !.pc = "done"]
     ELSE LET c1 == endApiTimer(c, c.error)
              c2 == IF c1.logger THEN logError(c1, "API", c.error) ELSE c1
              c3 == [c2 EXCEPT !.trace = Append(@, "handleRequestError")]
          IN [c3 EXCEPT !.result = handleRequestError(c.error), !.pc = "done"]

(* ------------------------------------------------------------------ *)
(* The classifier's inputs                                            *)
(* ------------------------------------------------------------------ *)

ShapeNames == {Undef, Str(""), Str("ENOTFOUND"), Str("ECONNREFUSED"), Str("e.madeup")}
ShapeObjects == {Obj(n, c) : n \in ShapeNames, c \in {Undef, Num(409)}}

\* Every combination of name, statusCode, body, error and code, present
\* or absent; the errors named after an error class carry a code and a
\* message of their own.
ErrorShapes ==
  {MkError(1, name, code, message, statusCode, body, error, Undef) :
     name \in {Undef, Str("HTTPError")} \cup {Str(k) : k \in ErrorClasses},
     code \in {Undef, Str("ENOTFOUND"), Str("ECONNREFUSED"), Str("EBOOM")},
     message \in {Str("Boom")},
     statusCode \in {Undef, Num(400), Num(404)},
     body \in {Undef, Text(<<"h">>)} \cup ShapeObjects,
     error \in {Undef, Str("boom")} \cup ShapeObjects}

(* ------------------------------------------------------------------ *)
(* The variables of send's closure                                    *)
(* ------------------------------------------------------------------ *)

closureOfClient(i) == 1

\* let requestMetricsEnd / let retryCounter = 1 are declared in send's
\* body: every invocation has a scope of its own, which its hooks close
\* over.
closureOf(i) == i

\* Invocation i has run a step and stands at c: what it assigned to the
\* variables of its scope is what every invocation with that scope reads.
commit(i, c) ==
  [j \in DOMAIN calls |->
     IF j = i THEN c
     ELSE IF closureOf(j) = closureOf(i)
          THEN [calls[j] EXCEPT !.requestMetricsEnd = c.requestMetricsEnd,
                                !.retryCounter = c.retryCounter]
          ELSE calls[j]]

\* The transport hands the attempt's outcome to one call.
deliverTo(c, ev) == [deliver(c, ev) EXCEPT !.seen = Append(@, ev)]

\* The outcomes of the attempts of calls that run side by side.
ConcurrentEvents ==
  {ev \in Events :
     \/ /\ ev.kind = "response"
        /\ \/ ev.response.statusCode = Num(200) /\ ~ev.retry
              /\ ev.response.body \in {Text(<<" ">>), Text(<<"{", "}">>)}
           \/ ev.response.statusCode = Num(503) /\ ev.response.body = Text(<<>>)
     \/ /\ ev.kind = "failure"
        /\ ev.error.name = Str("RequestError")
        /\ ev.error.code = Str("ENOTFOUND")
        /\ ev.error.statusCode = Undef
        /\ ev.error.error = Undef}

\* The outcomes of the attempts of a call whose timers and logger are
\* recording: responses with and without a status message, with a json,
\* a non-json and a blank body, failures with and without a name, a
\* statusCode and a status message.
ObservedEvents ==
  {[kind |-> "response",
    response |-> [Response(sc, Text(b)) EXCEPT !.statusMessage = m],
    error |-> NoError, retry |-> r] :
     sc \in Statuses, b \in {<<>>, <<"h">>, <<" ">>},
     m \in {Undef, Str("status message")}, r \in BOOLEAN}
  \cup
  {[kind |-> "failure", response |-> Undef,
    error |-> [MkError(1, name, Undef, Undef, statusCode, Undef, Undef, Undef)
                 EXCEPT !.statusMessage = m],
    retry |-> r] :
     name \in {Undef, Str("RequestError")}, statusCode \in {Undef, Num(401)},
     m \in {Undef, Str("boom")}, r \in BOOLEAN}

(* ------------------------------------------------------------------ *)
(* The cipher (fb-jwt-aes256) and the client's encryption methods      *)
(* ------------------------------------------------------------------ *)

\* Most calls of the cipher and of the client's encryption methods in one
\* behaviour.
MaxCipherCalls == 2

\* The bytes of the Initialization Vector: input.slice(0, 16)
IVLength == 16

\* typeof x === 'string'
IsString(x) == x.t \in {"string", "text"}

\* The characters with the codes 32 to 126, in the order of their codes
\* (the grave accent, code 96, by name).
Printable ==
  <<
    " ", "!", "\"", "#", "$", "%", "&", "'", "(", ")", "*", "+",
    ",", "-", ".", "/", "0", "1", "2", "3", "4", "5", "6", "7",
    "8", "9", ":", ";", "<", "=", ">", "?", "@", "A", "B", "C",
    "D", "E", "F", "G", "H", "I", "J", "K", "L", "M", "N", "O",
    "P", "Q", "R", "S", "T", "U", "V", "W", "X", "Y", "Z", "[",
    "\\", "]", "^", "_", "<grave>", "a", "b", "c", "d", "e", "f", "g",
    "h", "i", "j", "k", "l", "m", "n", "o", "p", "q", "r", "s",
    "t", "u", "v", "w", "x", "y", "z", "{", "|", "}", "~">>

\* A code unit that is an unpaired surrogate. Three more code units are
\* no printable ASCII: "<FFFD>" is the replacement character U+FFFD,
\* "<00-1F>" a control character other than tab, line feed and carriage
\* return, "<80-FF>" a character above U+007F.
LoneSurrogate == "<D83D>"

\* Buffer.from(string): the UTF-8 bytes of one code unit. An unpaired
\* surrogate has no UTF-8 form and is written as the bytes of U+FFFD.
Utf8Char(ch) ==
  CASE ch \in {LoneSurrogate, "<FFFD>"} -> <<239, 191, 189>>
    [] ch = "\t" -> <<9>>
    [] ch = "\n" -> <<10>>
    [] ch = "\r" -> <<13>>
    [] OTHER -> <<31 + (CHOOSE n \in 1..Len(Printable) : Printable[n] = ch)>>

RECURSIVE Utf8(_)
Utf8(cs) == IF cs = <<>> THEN <<>> ELSE Utf8Char(cs[1]) \o Utf8(Tail(cs))

\* buffer.toString(): the characters of UTF-8 bytes. The bytes of U+FFFD
\* are one character; every other byte above 127 is kept as one character
\* outside ASCII (its exact value plays no part here).
RECURSIVE Utf8Decode(_)
Utf8Decode(bs) ==
  IF bs = <<>> THEN <<>>
  ELSE IF Len(bs) >= 3 /\ SubSeq(bs, 1, 3) = <<239, 191, 189>>
  THEN <<"<FFFD>">> \o Utf8Decode(SubSeq(bs, 4, Len(bs)))
  ELSE LET b == bs[1]
           ch == CASE b >= 128 -> "<80-FF>"
                   [] b = 9 -> "\t"
                   [] b = 10 -> "\n"
                   [] b = 13 -> "\r"
                   [] b < 32 \/ b = 127 -> "<00-1F>"
                   [] OTHER -> Printable[b - 31]
       IN <<ch>> \o Utf8Decode(Tail(bs))

\* Buffer.from(string, 'base64'), of a string over the Base64 alphabet and
\* '=': decoding stops at the first '='; a character stands for its
\* position in the alphabet; four characters make three bytes, three left
\* over make two, two make one, one makes none.
RECURSIVE Base64DecodeChars(_)
Base64DecodeChars(cs) ==
  IF Len(cs) < 2 \/ cs[1] = "=" \/ cs[2] = "=" THEN <<>>
  ELSE LET SextetOf(ch) == (CHOOSE v \in 1..64 : Base64Alphabet[v] = ch) - 1
           n == (SextetOf(cs[1]) * 262144) + (SextetOf(cs[2]) * 4096)
       IN IF Len(cs) = 2 \/ cs[3] = "="
          THEN <<n \div 65536>>
          ELSE LET m == n + (SextetOf(cs[3]) * 64)
               IN IF Len(cs) = 3 \/ cs[4] = "="
                  THEN <<m \div 65536, (m \div 256) % 256>>
                  ELSE LET p == m + SextetOf(cs[4])
                       IN <<p \div 65536, (p \div 256) % 256, p % 256>>
                          \o Base64DecodeChars(SubSeq(cs, 5, Len(cs)))

\* a ^ b on bytes
RECURSIVE Xor(_, _)
Xor(a, b) ==
  IF a = 0 /\ b = 0 THEN 0
  ELSE (((a % 2) + (b % 2)) % 2) + 2 * Xor(a \div 2, b \div 2)

\* A checksum of bytes, standing for the mixing a digest or a block cipher
\* does: equal bytes give equal sums.
RECURSIVE Mix(_)
Mix(bs) ==
  IF bs = <<>> THEN 7
  ELSE ((Mix(SubSeq(bs, 1, Len(bs) - 1)) * 31) + bs[Len(bs)]) % 251

\* crypto.createHash('md5').update(ivSeed).digest(): sixteen bytes that
\* depend on the seed alone.
Md5(cs) == [k \in 1..IVLength |-> ((Mix(Utf8(cs)) * k) + k) % 256]

\* crypto.randomBytes(16): the vectors the model draws from.
RandomIVs == {[k \in 1..IVLength |-> 0], [k \in 1..IVLength |-> (15 * k) + 5]}

\* The k-th byte of the key stream of AES-256 in counter mode: a function
\* of the key's digest, the Initialization Vector and the position.
Keystream(digest, iv, k) ==
  ((Mix(Utf8(digest.of)) * 17) + (Mix(iv) * 29) + (k * 13)) % 256

\* cipher.update / decipher.update in counter mode: every byte is combined
\* with the key stream's byte at its position.
Ctr(digest, iv, bs) == [k \in 1..Len(bs) |-> Xor(bs[k], Keystream(digest, iv, k))]

\* new FBJWTAES256Error(message, {error: {code}})
FBJWTAES256Error(message, code) ==
  MkError(0, Str("FBJWTAES256Error"), Str(code), Str(message), Undef, Undef, Undef, Undef)

aes256_encryptValueFirst(key, plaintext, ivSeed, random) ==
  IF ~IsString(plaintext) \/ ~Truthy(plaintext)
  THEN Thrown(FBJWTAES256Error("Plaintext value must be a non-empty string", "ENOENCRYPTVALUE"))
  ELSE IF ~IsString(key) \/ ~Truthy(key)
  THEN Thrown(FBJWTAES256Error("Key must be a non-empty string", "ENOENCRYPTKEY"))
  ELSE IF Truthy(ivSeed) /\ ~IsString(ivSeed)
  THEN Thrown(TypeError)
  ELSE LET iv == IF Truthy(ivSeed) THEN Md5(ivSeed.chars) ELSE random
           ciphertext == Ctr(Sha256(key.chars), iv, Utf8(plaintext.chars))
       IN Returned(Text(Base64Bytes(iv \o ciphertext)))

\* aes256.encrypt (key, plaintext, ivSeed): the key is checked, then the
\* plaintext; the vector is the seed's digest, or random bytes when the
\* seed is falsy (hashing a seed that is no string throws); the result is
\* the Base64 of the vector followed by the ciphertext.
aes256_encrypt(key, plaintext, ivSeed, random) ==
  IF ~IsString(key) \/ ~Truthy(key)
  THEN Thrown(FBJWTAES256Error("Key must be a non-empty string", "ENOENCRYPTKEY"))
  ELSE IF ~IsString(plaintext) \/ ~Truthy(plaintext)
  THEN Thrown(FBJWTAES256Error("Plaintext value must be a non-empty string", "ENOENCRYPTVALUE"))
  ELSE IF Truthy(ivSeed) /\ ~IsString(ivSeed)
  THEN Thrown(TypeError)
  ELSE LET iv == IF Truthy(ivSeed) THEN Md5(ivSeed.chars) ELSE random
           ciphertext == Ctr(Sha256(key.chars), iv, Utf8(plaintext.chars))
       IN Returned(Text(Base64Bytes(iv \o ciphertext)))

aes256_decryptIgnoresIV(key, encrypted) ==
  IF ~IsString(key) \/ ~Truthy(key)
  THEN Thrown(FBJWTAES256Error("Key must be a non-empty string", "ENODECRYPTKEY"))
  ELSE IF ~IsString(encrypted) \/ ~Truthy(encrypted)
  THEN Thrown(FBJWTAES256Error("Encrypted value must be a non-empty string", "ENODECRYPTVALUE"))
  ELSE LET input_ == Base64DecodeChars(encrypted.chars)
       IN IF Len(input_) < IVLength + 1
          THEN Thrown([TypeError EXCEPT !.message = Str("Provided \"encrypted\" must decrypt to a non-empty string")])
          ELSE LET iv == [k \in 1..IVLength |-> 0]
                   ciphertext == SubSeq(input_, IVLength + 1, Len(input_))
               IN Returned(Text(Utf8Decode(Ctr(Sha256(key.chars), iv, ciphertext))))

\* aes256.decrypt (key, encrypted): the key is checked, then the encrypted
\* value; an input that decodes to fewer than 17 bytes is a TypeError; the
\* first 16 bytes are the vector, the rest is deciphered and returned as a
\* string.
aes256_decrypt(key, encrypted) ==
  IF ~IsString(key) \/ ~Truthy(key)
  THEN Thrown(FBJWTAES256Error("Key must be a non-empty string", "ENODECRYPTKEY"))
  ELSE IF ~IsString(encrypted) \/ ~Truthy(encrypted)
  THEN Thrown(FBJWTAES256Error("Encrypted value must be a non-empty string", "ENODECRYPTVALUE"))
  ELSE LET input_ == Base64DecodeChars(encrypted.chars)
       IN IF Len(input_) < IVLength + 1
          THEN Thrown([TypeError EXCEPT !.message = Str("Provided \"encrypted\" must decrypt to a non-empty string")])
          ELSE LET iv == SubSeq(input_, 1, IVLength)
                   ciphertext == SubSeq(input_, IVLength + 1, Len(input_))
               IN Returned(Text(Utf8Decode(Ctr(Sha256(key.chars), iv, ciphertext))))

\* The first position from k on that holds no white space of JSON.
RECURSIVE SkipSpace(_, _)
SkipSpace(cs, k) ==
  IF k <= Len(cs) /\ cs[k] \in {" ", "\t", "\n", "\r"} THEN SkipSpace(cs, k + 1) ELSE k

\* The position of the quote that closes the string whose content starts
\* at k, 0 if the string is not closed or holds a control character or a
\* backslash (escapes are not read).
RECURSIVE CloseQuote(_, _)
CloseQuote(cs, k) ==
  IF k > Len(cs) THEN 0
  ELSE IF cs[k] = "\"" THEN k
  ELSE IF cs[k] \in {"\\", "<00-1F>", "\t", "\n", "\r"} THEN 0
  ELSE CloseQuote(cs, k + 1)

\* A string literal at k: whether there is one, its content and the
\* position after it.
StringAt(cs, k) ==
  LET close == IF k <= Len(cs) /\ cs[k] = "\"" THEN CloseQuote(cs, k + 1) ELSE 0
  IN [ok |-> close > 0,
      chars |-> IF close > 0 THEN SubSeq(cs, k + 1, close - 1) ELSE <<>>,
      next |-> close + 1]

\* The members of an object from k on, the members before them in kv:
\* "key" : "value" pairs separated by commas up to the closing brace.
RECURSIVE MembersAt(_, _, _)
MembersAt(cs, k, kv) ==
  LET key == StringAt(cs, SkipSpace(cs, k))
      colon == SkipSpace(cs, key.next)
      val == StringAt(cs, SkipSpace(cs, colon + 1))
      after == SkipSpace(cs, val.next)
      kv1 == Append(kv, <<key.chars, val.chars>>)
  IN IF ~key.ok \/ colon > Len(cs) \/ cs[colon] # ":" \/ ~val.ok \/ after > Len(cs)
     THEN [ok |-> FALSE, kv |-> kv, next |-> 0]
     ELSE IF cs[after] = "}" THEN [ok |-> TRUE, kv |-> kv1, next |-> after + 1]
     ELSE IF cs[after] = "," THEN MembersAt(cs, after + 1, kv1)
     ELSE [ok |-> FALSE, kv |-> kv, next |-> 0]

\* JSON.parse(text), of the texts a payload object or a string serializes
\* to, white space allowed: an object of string members (keys distinct) or
\* a string; a SyntaxError on a text that is neither.
JSONParseText(cs) ==
  LET start == SkipSpace(cs, 1)
      SyntaxError == MkError(0, Str("SyntaxError"), Undef, Str("Unexpected token"),
                             Undef, Undef, Undef, Undef)
  IN IF start > Len(cs) THEN Thrown(SyntaxError)
     ELSE IF cs[start] = "\""
     THEN LET s == StringAt(cs, start)
          IN IF s.ok /\ SkipSpace(cs, s.next) > Len(cs)
             THEN Returned(Text(s.chars)) ELSE Thrown(SyntaxError)
     ELSE IF cs[start] = "{"
     THEN LET inner == SkipSpace(cs, start + 1)
              obj == IF inner <= Len(cs) /\ cs[inner] = "}"
                     THEN [ok |-> TRUE, kv |-> <<>>, next |-> inner + 1]
                     ELSE MembersAt(cs, start + 1, <<>>)
          IN IF obj.ok /\ SkipSpace(cs, obj.next) > Len(cs)
             THEN Returned(Data(obj.kv)) ELSE Thrown(SyntaxError)
     ELSE Thrown(SyntaxError)

\* encrypt (token, data, ivSeed): JSON.stringify(undefined) is undefined
encrypt(token, data, ivSeed, random) ==
  LET dataString == IF data = Undef THEN Undef ELSE Text(JSONStringify(data))
  IN aes256_encrypt(token, dataString, ivSeed, random)

decryptParsesOutsideTry(token, encryptedData) ==
  LET data == aes256_decrypt(token, encryptedData)
  IN IF data.kind = "throw"
     THEN throwRequestError(Num(500), Str("EINVALIDPAYLOAD"))
     ELSE JSONParseText(data.value.chars)

\* decrypt (token, encryptedData): whatever the cipher or JSON.parse
\* throws is caught and replaced by throwRequestError(500, 'EINVALIDPAYLOAD')
decrypt(token, encryptedData) ==
  LET data == aes256_decrypt(token, encryptedData)
      parsed == IF data.kind = "throw" THEN data ELSE JSONParseText(data.value.chars)
  IN IF parsed.kind = "throw"
     THEN throwRequestError(Num(500), Str("EINVALIDPAYLOAD"))
     ELSE parsed

\* {userId, userToken}
UserIdAndToken(userId, userToken) ==
  Data(<< <<(<<"u", "s", "e", "r", "I", "d">>), userId.chars>>,
          <<(<<"u", "s", "e", "r", "T", "o", "k", "e", "n">>), userToken.chars>> >>)

\* encryptUserIdAndToken (userId, userToken): the seed is userId + userToken,
\* the two strings joined
encryptUserIdAndToken(serviceSecret, userId, userToken, random) ==
  encrypt(serviceSecret, UserIdAndToken(userId, userToken),
          Text(userId.chars \o userToken.chars), random)

\* decryptUserIdAndToken (encryptedData)
decryptUserIdAndToken(serviceSecret, encryptedData) ==
  decrypt(serviceSecret, encryptedData)

\* Keys, tokens and service secrets: none, no string, the empty string, a
\* string.
CipherKeys == {Undef, Num(1), Text(<<>>), Text(<<"k">>)}

\* Plaintexts: none, no string, the empty string, a string that is no
\* JSON, a string that is one unpaired surrogate.
Plaintexts == {Undef, Num(1), Text(<<>>), Text(<<"a">>), Text(<<LoneSurrogate>>)}

\* Seeds of the Initialization Vector: none, the empty string, a string.
Seeds == {Undef, Text(<<>>), Text(<<"s">>)}

\* User ids and user tokens: the empty string and two strings.
UserStrings == {Text(<<>>), Text(<<"u">>), Text(<<"t">>)}

\* Values to decrypt that no encryption made: none, the empty string, the
\* tests' 'invalid' (5 bytes), and the Base64 of 16 bytes (a vector and no
\* ciphertext).
Encrypteds ==
  {Undef, Text(<<>>), Text(<<"i", "n", "v", "a", "l", "i", "d">>),
   Text(Base64Bytes([k \in 1..IVLength |-> k]))}

\* What the calls so far have encrypted; outs holds each call of the
\* cipher or of a client method with its key, argument, seed and result.
Encrypted ==
  {outs[k].result.value : k \in {j \in DOMAIN outs : outs[j].result.kind = "return"
                                   /\ outs[j].fn \in {"aes256.encrypt", "encrypt",
                                                      "encryptUserIdAndToken"}}}

(* ------------------------------------------------------------------ *)
(* Actions                                                            *)
(* ------------------------------------------------------------------ *)

\* send is invoked and runs up to its await.
Send(i) ==
  /\ calls[i].pc = "send"
  /\ calls' = commit(i, sendCall(calls[i]))
  /\ UNCHANGED <<ErrorClass, input, outs>>

\* The transport runs the beforeRequest hook and sends the request.
BeforeRequest(i) ==
  /\ calls[i].pc = "beforeRequest"
  /\ calls' = commit(i, beforeRequest(calls[i]))
  /\ UNCHANGED <<ErrorClass, input, outs>>

\* The transport runs the afterResponse hook on the response.
AfterResponse(i) ==
  /\ calls[i].pc = "afterResponse"
  /\ calls' = commit(i, afterResponse(calls[i]))
  /\ UNCHANGED <<ErrorClass, input, outs>>

\* The transport parses the body and resolves, retries or fails.
Settle(i) ==
  /\ calls[i].pc = "settle"
  /\ calls' = commit(i, settle(calls[i]))
  /\ UNCHANGED <<ErrorClass, input, outs>>

\* The transport runs the beforeRetry hook and sends the request again.
BeforeRetry(i) ==
  /\ calls[i].pc = "beforeRetry"
  /\ calls' = commit(i, beforeRetry(calls[i]))
  /\ UNCHANGED <<ErrorClass, input, outs>>

\* The transport runs the beforeError hook and rejects.
BeforeError(i) ==
  /\ calls[i].pc = "beforeError"
  /\ calls' = commit(i, beforeError(calls[i]))
  /\ UNCHANGED <<ErrorClass, input, outs>>

\* send goes on after the transport resolved.
SendResolved(i) ==
  /\ calls[i].pc = "resolved"
  /\ calls' = commit(i, sendResolved(calls[i]))
  /\ UNCHANGED <<ErrorClass, input, outs>>

\* send's catch block runs after the transport rejected.
SendCatch(i) ==
  /\ calls[i].pc = "rejected"
  /\ calls' = commit(i, sendCatch(calls[i]))
  /\ UNCHANGED <<ErrorClass, input, outs>>

\* sendGet is invoked and runs up to send's await.
SendGet(i) ==
  /\ calls[i].pc = "sendGet"
  /\ calls' = commit(i, sendGet(calls[i]))
  /\ UNCHANGED <<ErrorClass, input, outs>>

\* sendPost is invoked and runs up to send's await.
SendPost(i) ==
  /\ calls[i].pc = "sendPost"
  /\ calls' = commit(i, sendPost(calls[i]))
  /\ UNCHANGED <<ErrorClass, input, outs>>

\* The network: the attempt every call in flight is waiting for ends. The
\* calls under observation are given the same outcome.
Deliver ==
  /\ \E i \in DOMAIN calls : calls[i].pc = "inflight"
  /\ \A i \in DOMAIN calls : calls[i].pc \in {"inflight", "done"}
  /\ \E ev \in Events :
       calls' = [i \in DOMAIN calls |->
                   IF calls[i].pc = "inflight" THEN deliver(calls[i], ev) ELSE calls[i]]
  /\ UNCHANGED <<ErrorClass, input, outs>>

\* The network: the attempt one call is waiting for ends.
DeliverTo(i) ==
  /\ calls[i].pc = "inflight"
  /\ \E ev \in ConcurrentEvents : calls' = commit(i, deliverTo(calls[i], ev))
  /\ UNCHANGED <<ErrorClass, input, outs>>

\* new FBJWTClient(...): errorClass, when passed, becomes the instance's
\* ErrorClass before the checks run.
Construct ==
  /\ outs = <<>>
  /\ ErrorClass' = IF Truthy(input.errorClass) THEN input.errorClass.v ELSE ErrorClass
  /\ UNCHANGED <<calls, input>>
  /\ outs' = <<constructor(input.serviceSecret, input.serviceToken,
                            input.serviceSlug, input.microserviceUrl)'>>

\* The network: the attempt a recording call is waiting for ends.
DeliverObserved(i) ==
  /\ calls[i].pc = "inflight"
  /\ \E ev \in ObservedEvents : calls' = commit(i, deliver(calls[i], ev))
  /\ UNCHANGED <<ErrorClass, input, outs>>

\* A direct call of handleRequestError: first on the input, then on what
\* the call before it threw. An error constructed by the call is given an
\* identity no other object has.
Classify ==
  /\ DOMAIN calls = {}
  /\ Len(outs) < MaxRehandle
  /\ Len(outs) > 0 => outs[Len(outs)].kind = "throw"
  /\ LET err == IF outs = <<>> THEN input ELSE outs[Len(outs)].err
         out == handleRequestError(err)
         fresh == Len(outs) + 2
     IN outs' = Append(outs, IF out.kind = "throw" /\ out.err.ref = 0
                             THEN [out EXCEPT !.err.ref = fresh]
                             ELSE out)
  /\ UNCHANGED <<ErrorClass, calls, input>>

CallInits ==
  {NewCall(l, m, u, x) : l \in BOOLEAN, m \in Methods, u \in UrlPatterns, x \in Contexts}

\* The methods send is called with where only the options matter.
OptionMethods == Methods \cup {"put"}

\* Invocations of send, sendGet and sendPost with every payload and every
\* sendOptions.
OptionCallInits ==
  {[NewCall(l, m, u, x) EXCEPT !.payload = p, !.sendOptions = so] :
     l \in BOOLEAN, m \in OptionMethods, u \in UrlPatterns, x \in Contexts,
     p \in Payloads, so \in SendOptions}
  \cup
  {[NewCall(l, "", u, x) EXCEPT !.entry = e, !.pc = e,
                                 !.payload = p, !.sendOptions = so] :
     l \in BOOLEAN, e \in {"sendGet", "sendPost"}, u \in UrlPatterns,
     x \in Contexts, p \in Payloads, so \in SendOptions}

\* One invocation of send, sendGet or sendPost, followed up to the call of
\* the transport.
InitOptions ==
  /\ ErrorClass = DefaultErrorClass
  /\ \E c \in OptionCallInits : calls = [i \in {1} |-> c]
  /\ input = NoError
  /\ outs = <<>>

\* One send invocation whose timers and logger keep their arguments.
InitTimers ==
  /\ ErrorClass = DefaultErrorClass
  /\ \E c \in CallInits :
       /\ Placeholders(c.url) = c.context
       /\ calls = [i \in {1} |-> [c EXCEPT !.recording = TRUE]]
  /\ input = NoError
  /\ outs = <<>>

\* setMetricsInstrumentation is called on the constructed client, at any
\* time, with the caller's two recorders.
SetMetricsInstrumentation ==
  /\ outs # <<>>
  /\ outs[1].kind = "return"
  /\ outs' = [outs EXCEPT ![1].value =
                setMetricsInstrumentation(@, "apiMetrics", "requestMetrics")]
  /\ UNCHANGED <<ErrorClass, calls, input>>

\* A method that returns or throws at once is called on the constructed
\* client: createRequestOptions, generateAccessToken, encrypt, decrypt or
\* handleRequestError.
CallMethod ==
  /\ Len(outs) = 1
  /\ outs[1].kind = "return"
  /\ calls = <<>>
  /\ \E result \in {createRequestOptions("/route", {}, Undef, FALSE),
                    Returned(generateAccessToken(Data(<<>>))),
                    encrypt(Text(<<"k">>), Data(<<>>), Text(<<"s">>), [k \in 1..IVLength |-> 0]),
                    decrypt(Text(<<"k">>), Text(<<"i", "n", "v", "a", "l", "i", "d">>)),
                    handleRequestError(NoError)} :
       outs' = Append(outs, result)
  /\ UNCHANGED <<ErrorClass, calls, input>>

\* send, sendGet or sendPost is invoked on the constructed client, with a
\* logger.
Invoke ==
  /\ outs # <<>>
  /\ outs[1].kind = "return"
  /\ calls = <<>>
  /\ \E e \in {"send", "sendGet", "sendPost"} :
       calls' = <<[NewCall(TRUE, IF e = "send" THEN "get" ELSE "", "/route", {})
                     EXCEPT !.entry = e, !.pc = e]>>
  /\ UNCHANGED <<ErrorClass, input, outs>>

\* aes256.encrypt is called with the key and the seed of the behaviour.
AesEncrypt ==
  /\ Len(outs) < MaxCipherCalls
  /\ \E plaintext \in Plaintexts, random \in RandomIVs :
       outs' = Append(outs, [fn |-> "aes256.encrypt", key |-> input.key, arg |-> plaintext,
                         seed |-> input.ivSeed,
                         result |-> aes256_encrypt(input.key, plaintext, input.ivSeed, random)])
  /\ UNCHANGED <<ErrorClass, calls, input>>

\* aes256.decrypt is called on a value no encryption made or on the result
\* of an earlier encryption.
AesDecrypt ==
  /\ Len(outs) < MaxCipherCalls
  /\ \E encrypted \in Encrypteds \cup Encrypted :
       outs' = Append(outs, [fn |-> "aes256.decrypt", key |-> input.key, arg |-> encrypted,
                         seed |-> Undef,
                         result |-> aes256_decrypt(input.key, encrypted)])
  /\ UNCHANGED <<ErrorClass, calls, input>>

\* The client's encrypt is called with the key as the token.
ClientEncrypt ==
  /\ Len(outs) < MaxCipherCalls
  /\ \E data \in Payloads, random \in RandomIVs :
       outs' = Append(outs, [fn |-> "encrypt", key |-> input.key, arg |-> data,
                         seed |-> input.ivSeed,
                         result |-> encrypt(input.key, data, input.ivSeed, random)])
  /\ UNCHANGED <<ErrorClass, calls, input>>

\* The client's decrypt is called with the key as the token.
ClientDecrypt ==
  /\ Len(outs) < MaxCipherCalls
  /\ \E encryptedData \in Encrypteds \cup Encrypted :
       outs' = Append(outs, [fn |-> "decrypt", key |-> input.key, arg |-> encryptedData,
                         seed |-> Undef,
                         result |-> decrypt(input.key, encryptedData)])
  /\ UNCHANGED <<ErrorClass, calls, input>>

\* encryptUserIdAndToken is called on a client whose service secret is the
\* key.
EncryptUserIdAndToken ==
  /\ Len(outs) < MaxCipherCalls
  /\ \E userId \in UserStrings, userToken \in UserStrings, random \in RandomIVs :
       outs' = Append(outs, [fn |-> "encryptUserIdAndToken", key |-> input.key, arg |-> [t |-> "args", userId |-> userId, userToken |-> userToken],
                         seed |-> Undef,
                         result |-> encryptUserIdAndToken(input.key, userId, userToken, random)])
  /\ UNCHANGED <<ErrorClass, calls, input>>

\* decryptUserIdAndToken is called on a client whose service secret is the
\* key.
DecryptUserIdAndToken ==
  /\ Len(outs) < MaxCipherCalls
  /\ \E encryptedData \in Encrypteds \cup Encrypted :
       outs' = Append(outs, [fn |-> "decryptUserIdAndToken", key |-> input.key, arg |-> encryptedData,
                         seed |-> Undef,
                         result |-> decryptUserIdAndToken(input.key, encryptedData)])
  /\ UNCHANGED <<ErrorClass, calls, input>>

\* One send invocation, with or without a logger.
Init ==
  /\ ErrorClass \in ErrorClasses
  /\ \E c \in CallInits : calls = [i \in {1} |-> c]
  /\ input = NoError
  /\ outs = <<>>

\* Two send invocations with the same arguments, the first with a logger
\* and the second without.
InitPair ==
  /\ ErrorClass = DefaultErrorClass
  /\ \E c \in CallInits : calls = [i \in {1, 2} |-> [c EXCEPT !.logger = (i = 1)]]
  /\ input = NoError
  /\ outs = <<>>

\* A direct call of the classifier on an error of any shape.
InitHandle ==
  /\ ErrorClass \in ErrorClasses
  /\ calls = <<>>
  /\ input \in ErrorShapes
  /\ outs = <<>>

\* Two send invocations on one client, each with arguments of its own.
InitConcurrent ==
  /\ ErrorClass = DefaultErrorClass
  /\ calls \in [{1, 2} -> {NewCall(l, m, "/route", {}) : l \in BOOLEAN, m \in Methods}]
  /\ input = NoError
  /\ outs = <<>>

\* The constructor is about to be called; ErrorClass is the prototype's.
InitConstruct ==
  /\ ErrorClass = DefaultErrorClass
  /\ calls = <<>>
  /\ input \in ConstructorArgs
  /\ outs = <<>>

Next ==
  \/ \E i \in DOMAIN calls : Send(i)
  \/ \E i \in DOMAIN calls : BeforeRequest(i)
  \/ Deliver
  \/ \E i \in DOMAIN calls : AfterResponse(i)
  \/ \E i \in DOMAIN calls : Settle(i)
  \/ \E i \in DOMAIN calls : BeforeRetry(i)
  \/ \E i \in DOMAIN calls : BeforeError(i)
  \/ \E i \in DOMAIN calls : SendResolved(i)
  \/ \E i \in DOMAIN calls : SendCatch(i)

NextHandle == Classify

NextConstruct == Construct

NextTimers ==
  \/ \E i \in DOMAIN calls : Send(i)
  \/ \E i \in DOMAIN calls : BeforeRequest(i)
  \/ \E i \in DOMAIN calls : DeliverObserved(i)
  \/ \E i \in DOMAIN calls : AfterResponse(i)
  \/ \E i \in DOMAIN calls : Settle(i)
  \/ \E i \in DOMAIN calls : BeforeRetry(i)
  \/ \E i \in DOMAIN calls : BeforeError(i)
  \/ \E i \in DOMAIN calls : SendResolved(i)
  \/ \E i \in DOMAIN calls : SendCatch(i)

NextOptions ==
  \/ \E i \in DOMAIN calls : Send(i)
  \/ \E i \in DOMAIN calls : SendGet(i)
  \/ \E i \in DOMAIN calls : SendPost(i)

\* The steps of the calls in any order, each attempt ending on its own.
NextConcurrent ==
  \/ \E i \in DOMAIN calls : Send(i)
  \/ \E i \in DOMAIN calls : BeforeRequest(i)
  \/ \E i \in DOMAIN calls : DeliverTo(i)
  \/ \E i \in DOMAIN calls : AfterResponse(i)
  \/ \E i \in DOMAIN calls : Settle(i)
  \/ \E i \in DOMAIN calls : BeforeRetry(i)
  \/ \E i \in DOMAIN calls : BeforeError(i)
  \/ \E i \in DOMAIN calls : SendResolved(i)
  \/ \E i \in DOMAIN calls : SendCatch(i)


Spec == Init /\ [][Next]_vars

\* One send invocation under the scheduling of the event loop: a
\* continuation or a hook that is ready to run is run, and the transport
\* ends the attempt it is waiting for and makes at most MaxRetries retries.
SpecLive == Init /\ [][Next]_vars /\ WF_vars(Next)
SpecPair == InitPair /\ [][Next]_vars
SpecHandle == InitHandle /\ [][NextHandle]_vars
SpecConcurrent == InitConcurrent /\ [][NextConcurrent]_vars
SpecConstruct == InitConstruct /\ [][NextConstruct]_vars
SpecOptions == InitOptions /\ [][NextOptions]_vars
SpecTimers == InitTimers /\ [][NextTimers]_vars

\* The cipher and the client's encryption methods, called in any order with
\* one key and one seed.
InitCipher ==
  /\ ErrorClass \in ErrorClasses
  /\ calls = <<>>
  /\ input \in [key : CipherKeys, ivSeed : Seeds]
  /\ outs = <<>>

NextCipher ==
  \/ AesEncrypt
  \/ AesDecrypt
  \/ ClientEncrypt
  \/ ClientDecrypt
  \/ EncryptUserIdAndToken
  \/ DecryptUserIdAndToken

SpecCipher == InitCipher /\ [][NextCipher]_vars

\* A client from its construction on: its methods are called, a send
\* invocation runs, the metrics recorders are replaced.
NextClient ==
  \/ Construct
  \/ SetMetricsInstrumentation
  \/ CallMethod
  \/ Invoke
  \/ \E i \in DOMAIN calls : SendGet(i)
  \/ \E i \in DOMAIN calls : SendPost(i)
  \/ Next

SpecClient == InitConstruct /\ [][NextClient]_vars

(* ------------------------------------------------------------------ *)
(* Properties                                                         *)
(* ------------------------------------------------------------------ *)

Done(c) == c.pc = "done"

\* The transport was called: the request options were built.
TransportCalled(c) == c.apiStarts > 0

\* C1: a send invocation that called the transport has started its
\* per-call timer exactly once and called its end function exactly once
\* when it completes, on every exit path.
C1_ApiTimerEndedOnce ==
  \A i \in DOMAIN calls :
    Done(calls[i]) /\ TransportCalled(calls[i])
      => calls[i].apiStarts = 1 /\ calls[i].apiEnds = 1

\* C2: when a send invocation completes, it has started one per-attempt
\* timer for each attempt, and the end function of each of them has been
\* called exactly once.
C2_RequestTimersEndedOnce ==
  \A i \in DOMAIN calls :
    Done(calls[i]) /\ TransportCalled(calls[i])
      => /\ Len(calls[i].reqEnds) = calls[i].attempts
         /\ \A k \in 1..Len(calls[i].reqEnds) : calls[i].reqEnds[k] = 1

\* What the caller of send can observe of its outcome: the value
\* returned, or the kind, code and message of the error thrown.
Outcome(c) ==
  [kind |-> c.result.kind, value |-> c.result.value, name |-> c.result.err.name,
   code |-> c.result.err.code, message |-> c.result.err.message]

\* C3: of two send invocations given the same arguments and the same
\* transport events, one with a logger and one without, both end with the
\* same outcome and the same timer starts and stops.
C3_LoggerDoesNotChangeOutcome ==
  (DOMAIN calls = {1, 2} /\ Done(calls[1]) /\ Done(calls[2]))
    => /\ Outcome(calls[1]) = Outcome(calls[2])
       /\ calls[1].apiStarts = calls[2].apiStarts
       /\ calls[1].apiEnds = calls[2].apiEnds
       /\ calls[1].reqEnds = calls[2].reqEnds

\* C5: every error a send invocation throws to its caller is of the
\* client's configured error class and carries a code and a message.
C5_SendThrowsOnlyClientErrors ==
  \A i \in DOMAIN calls :
    Done(calls[i]) /\ calls[i].result.kind = "throw"
      => /\ calls[i].result.err.name = Str(ErrorClass)
         /\ calls[i].result.err.code # Undef
         /\ calls[i].result.err.message # Undef

(* The classifier, called directly *)

\* The error the k-th direct call of the classifier was given.
InputOf(k) == IF k = 1 THEN input ELSE outs[k - 1].err

OwnKind(err) == err.name = Str(ErrorClass)

\* A statusCode the classifier sees (0 and '' count as none).
HasStatusCode(err) == Truthy(err.statusCode)

\* The error object the classifier reads the message from: an
\* object-valued body, else err.error.
ErrorObjectOf(err) == IF IsObject(err.body) THEN err.body ELSE err.error

\* name if present, else code if present, else 'EUNSPECIFIED'
NameElseCode(o) ==
  IF IsObject(o) /\ Truthy(o.name) THEN o.name
  ELSE IF IsObject(o) /\ Truthy(o.code) THEN o.code
  ELSE Str("EUNSPECIFIED")

\* 502 for 'ENOTFOUND', 503 for 'ECONNREFUSED', 500 for any other message
CodeForMessage(m) ==
  IF m = Str("ENOTFOUND") THEN Num(502)
  ELSE IF m = Str("ECONNREFUSED") THEN Num(503)
  ELSE Num(500)

\* C4: every call of handleRequestError throws, and unless its input
\* carries the configured error class's name it throws a new error of that
\* class.
C4_HandleRequestErrorAlwaysThrows ==
  \A k \in 1..Len(outs) :
    /\ outs[k].kind = "throw"
    /\ ~OwnKind(InputOf(k))
         => /\ outs[k].err.name = Str(ErrorClass)
            /\ outs[k].err.ref # InputOf(k).ref

\* C4's case: an error with statusCode 404, a body and a code, not of the
\* client's kind, has been classified.
C4_Witness ==
  /\ Len(outs) >= 1
  /\ outs[1].kind = "throw"
  /\ ~OwnKind(input)
  /\ input.statusCode = Num(404)
  /\ IsObject(input.body)
  /\ Truthy(input.code)

\* C6: an error that carries the configured error class's name is
\* rethrown as the same object, unchanged, whatever else it carries; and
\* classifying what handleRequestError threw throws that same error.
C6_OwnErrorsRethrownUnchanged ==
  \A k \in 1..Len(outs) :
    /\ OwnKind(InputOf(k)) => outs[k] = Thrown(InputOf(k))
    /\ k >= 2 => outs[k] = outs[k - 1]

\* C6's case: an error of the client's kind that carries a statusCode and
\* an error object has been classified twice.
C6_Witness ==
  /\ Len(outs) = 2
  /\ OwnKind(input)
  /\ HasStatusCode(input)
  /\ IsObject(input.error)
  /\ outs[2].err = input

\* C7: an error with statusCode 404 that is not of the client's kind is
\* thrown with code 404 and message 404, whatever body, error object or
\* code it carries.
C7_NotFoundIs404 ==
  \A k \in 1..Len(outs) :
    (InputOf(k).statusCode = Num(404) /\ ~OwnKind(InputOf(k)))
      => /\ outs[k].kind = "throw"
         /\ outs[k].err.code = Num(404)
         /\ outs[k].err.message = Num(404)

\* C7's case: a 404 whose body is named 'ENOTFOUND' has been classified.
C7_Witness ==
  /\ Len(outs) >= 1
  /\ ~OwnKind(input)
  /\ input.statusCode = Num(404)
  /\ PropName(input.body) = Str("ENOTFOUND")
  /\ outs[1].err.code = Num(404)

\* C8 as stated: an error with a statusCode other than 404 is thrown with
\* that statusCode as code and with the message err.error.name if present,
\* else err.error.code if present, else 'EUNSPECIFIED' (read here for the
\* errors that are not of the client's kind).
C8_Original ==
  \A k \in 1..Len(outs) :
    (HasStatusCode(InputOf(k)) /\ InputOf(k).statusCode # Num(404)
       /\ ~OwnKind(InputOf(k)))
      => /\ outs[k].kind = "throw"
         /\ outs[k].err.code = InputOf(k).statusCode
         /\ outs[k].err.message = NameElseCode(ErrorObjectOf(InputOf(k)))

\* C8, amended: an error that is not of the client's kind and has a
\* statusCode other than 404 is thrown with that statusCode as code; its
\* message is the error object's name if present, else its code if
\* present, else 'EUNSPECIFIED' when it carries an error object, and the
\* statusCode when it carries none.
C8_StatusCodeErrors ==
  \A k \in 1..Len(outs) :
    (HasStatusCode(InputOf(k)) /\ InputOf(k).statusCode # Num(404)
       /\ ~OwnKind(InputOf(k)))
      => /\ outs[k].kind = "throw"
         /\ outs[k].err.code = InputOf(k).statusCode
         /\ outs[k].err.message =
              IF Truthy(ErrorObjectOf(InputOf(k)))
              THEN NameElseCode(ErrorObjectOf(InputOf(k)))
              ELSE InputOf(k).statusCode

\* C8's case: a 400 with an error object that has a code and no name has
\* been classified.
C8_Witness ==
  /\ Len(outs) >= 1
  /\ ~OwnKind(input)
  /\ input.statusCode = Num(400)
  /\ input.body = Undef
  /\ input.error = Obj(Undef, Num(409))
  /\ outs[1].err.message = Num(409)

\* An error that carries a statusCode and nothing else.
OnlyStatusCode(e) ==
  /\ HasStatusCode(e)
  /\ e.name = Undef /\ e.code = Undef /\ e.body = Undef
  /\ e.error = Undef /\ e.response = Undef

\* C9: when the transport rejects with an error that carries only a
\* statusCode, send (get or post) throws an error of the client's kind
\* whose code and whose message are that statusCode.
C9_StatusCodeOnlyErrors ==
  \A i \in DOMAIN calls :
    (Done(calls[i]) /\ OnlyStatusCode(calls[i].error))
      => /\ calls[i].result.kind = "throw"
         /\ calls[i].result.err.name = Str(ErrorClass)
         /\ calls[i].result.err.code = calls[i].error.statusCode
         /\ calls[i].result.err.message = calls[i].error.statusCode

\* C9's case: a post ended with an error that carries only statusCode 401.
C9_Witness ==
  \E i \in DOMAIN calls :
    /\ Done(calls[i])
    /\ calls[i].method = "post"
    /\ OnlyStatusCode(calls[i].error)
    /\ calls[i].error.statusCode = Num(401)
    /\ calls[i].result.kind = "throw"

\* C10 as stated: an error without a statusCode that has an error object
\* is thrown with the message error.name, else error.code, else
\* 'EUNSPECIFIED', and with the code 502, 503 or 500 that message stands
\* for.
C10_Original ==
  \A k \in 1..Len(outs) :
    (~HasStatusCode(InputOf(k)) /\ IsObject(ErrorObjectOf(InputOf(k))))
      => /\ outs[k].kind = "throw"
         /\ outs[k].err.message = NameElseCode(ErrorObjectOf(InputOf(k)))
         /\ outs[k].err.code = CodeForMessage(outs[k].err.message)

\* C10, amended: the same of every such error that is not of the client's
\* kind.
C10_ErrorObjectErrors ==
  \A k \in 1..Len(outs) :
    (~HasStatusCode(InputOf(k)) /\ IsObject(ErrorObjectOf(InputOf(k)))
       /\ ~OwnKind(InputOf(k)))
      => /\ outs[k].kind = "throw"
         /\ outs[k].err.message = NameElseCode(ErrorObjectOf(InputOf(k)))
         /\ outs[k].err.code = CodeForMessage(outs[k].err.message)

\* C10's case: an error whose error object is named 'ECONNREFUSED' has
\* been classified as 503.
C10_Witness ==
  /\ Len(outs) >= 1
  /\ ~OwnKind(input)
  /\ ~HasStatusCode(input)
  /\ PropName(input.error) = Str("ECONNREFUSED")
  /\ input.body = Undef
  /\ outs[1].err.code = Num(503)

\* code if present, else 'ENOERROR'
CodeElseNoError(err) == IF Truthy(err.code) THEN err.code ELSE Str("ENOERROR")

\* C11 as stated: an error with neither a statusCode nor an error object
\* is thrown with the message err.code, or 'ENOERROR' when it has no code,
\* and with the code 502, 503 or 500 that message stands for.
C11_Original ==
  \A k \in 1..Len(outs) :
    (~HasStatusCode(InputOf(k)) /\ ~Truthy(ErrorObjectOf(InputOf(k))))
      => /\ outs[k].kind = "throw"
         /\ outs[k].err.message = CodeElseNoError(InputOf(k))
         /\ outs[k].err.code = CodeForMessage(outs[k].err.message)

\* C11, amended: the same of every such error that is not of the client's
\* kind (one that is keeps its own code and message).
C11_BareCodeErrors ==
  \A k \in 1..Len(outs) :
    (~HasStatusCode(InputOf(k)) /\ ~Truthy(ErrorObjectOf(InputOf(k)))
       /\ ~OwnKind(InputOf(k)))
      => /\ outs[k].kind = "throw"
         /\ outs[k].err.message = CodeElseNoError(InputOf(k))
         /\ outs[k].err.code = CodeForMessage(outs[k].err.message)

\* C11's case: an error that carries nothing but the code 'ENOTFOUND' has
\* been classified as 502, and one that carries nothing at all would be 500.
C11_Witness ==
  /\ Len(outs) >= 1
  /\ ~OwnKind(input)
  /\ ~HasStatusCode(input)
  /\ input.body = Undef /\ input.error = Undef
  /\ input.code = Str("ENOTFOUND")
  /\ outs[1].err.code = Num(502)
  /\ outs[1].err.message = Str("ENOTFOUND")

(* send and the response's body *)

\* The response the call's last attempt ended with, as the service sent it.
LastResponse(c) == c.ev.response

GotResponse(c) == c.ev.kind = "response"

SuccessStatus(r) == r.statusCode.v >= 200 /\ r.statusCode.v < 300

\* The body is absent, the empty string or white space only.
BlankBody(r) == trim(r.body.chars) = <<>>

\* C12: when the service answers with a success status and a body that is
\* absent, empty or white space only, send returns the empty object and
\* does not throw.
C12_BlankBodyReturnsEmptyObject ==
  \A i \in DOMAIN calls :
    (Done(calls[i]) /\ GotResponse(calls[i])
       /\ SuccessStatus(LastResponse(calls[i])) /\ BlankBody(LastResponse(calls[i])))
      => calls[i].result = Returned(EmptyObject)

\* C12's case: a call whose service answered 200 with a body of one space
\* has returned, and it went through the catch block.
C12_Witness ==
  \E i \in DOMAIN calls :
    /\ Done(calls[i])
    /\ GotResponse(calls[i])
    /\ LastResponse(calls[i]).statusCode = Num(200)
    /\ LastResponse(calls[i]).body = Text(<<" ">>)
    /\ calls[i].error.name = Str("ParseError")
    /\ calls[i].result = Returned(EmptyObject)

\* The transport rejected and send's catch block has run.
Caught(c) == Done(c) /\ TransportCalled(c) /\ c.error # NoError

\* The error carries a response with a status < 300 and a body of white
\* space only.
BlankSuccessAttached(e) ==
  /\ Truthy(e.response)
  /\ e.response.statusCode.v < 300
  /\ e.response.body.t = "text"
  /\ trim(e.response.body.chars) = <<>>

Classified(c) == \E k \in DOMAIN c.trace : c.trace[k] = "handleRequestError"

LoggedAPI(c) == \E k \in DOMAIN c.log : c.log[k] = "API"

\* C13: when the transport rejects, send returns {} exactly when the error
\* carries a response with a status < 300 and a body of white space only,
\* and then it neither calls the classifier nor logs an API-level error;
\* every other error the transport rejects with is classified and thrown.
C13_BlankBodyToleranceOnly ==
  \A i \in DOMAIN calls :
    Caught(calls[i])
      => IF BlankSuccessAttached(calls[i].error)
         THEN /\ calls[i].result = Returned(EmptyObject)
              /\ ~Classified(calls[i])
              /\ ~LoggedAPI(calls[i])
         ELSE /\ calls[i].result.kind = "throw"
              /\ Classified(calls[i])
              /\ calls[i].result.err.name = Str(ErrorClass)

\* C13's case: a call with a logger was rejected with a 404 whose body is
\* one space; it was classified and thrown, not tolerated.
C13_Witness ==
  \E i \in DOMAIN calls :
    /\ Caught(calls[i])
    /\ calls[i].logger
    /\ Truthy(calls[i].error.response)
    /\ calls[i].error.response.statusCode = Num(404)
    /\ calls[i].error.response.body = Text(<<" ">>)
    /\ calls[i].result.kind = "throw"
    /\ LoggedAPI(calls[i])

\* C14: when the service answers with a success status and a body that is
\* not blank and not valid JSON, send throws an error of the client's
\* configured class with code 500.
C14_NonJsonBodyIs500 ==
  \A i \in DOMAIN calls :
    (Done(calls[i]) /\ GotResponse(calls[i])
       /\ SuccessStatus(LastResponse(calls[i]))
       /\ ~BlankBody(LastResponse(calls[i]))
       /\ ~JSONValid(LastResponse(calls[i]).body.chars))
      => /\ calls[i].result.kind = "throw"
         /\ calls[i].result.err.name = Str(ErrorClass)
         /\ calls[i].result.err.code = Num(500)

(* Calls side by side *)

\* One step of a call that is not waiting for the transport.
stepAlone(c) ==
  CASE c.pc = "send" -> sendCall(c)
    [] c.pc = "beforeRequest" -> beforeRequest(c)
    [] c.pc = "afterResponse" -> afterResponse(c)
    [] c.pc = "settle" -> settle(c)
    [] c.pc = "beforeRetry" -> beforeRetry(c)
    [] c.pc = "beforeError" -> beforeError(c)
    [] c.pc = "resolved" -> sendResolved(c)
    [] c.pc = "rejected" -> sendCatch(c)

\* The call c run on its own, its attempts ending with the outcomes evs:
\* where it stands when it completes or waits for an outcome evs lacks.
RECURSIVE RunAlone(_, _)
RunAlone(c, evs) ==
  IF c.pc = "done" THEN c
  ELSE IF c.pc = "inflight"
       THEN IF evs = <<>> THEN c ELSE RunAlone(deliverTo(c, Head(evs)), Tail(evs))
       ELSE RunAlone(stepAlone(c), evs)

\* The call as it was invoked.
Invoked(c) ==
  [NewCall(c.logger, c.method, c.url, c.context) EXCEPT
     !.payload = c.payload, !.sendOptions = c.sendOptions]

\* C15: of two send invocations on one client whose hooks run in any
\* order, each one, whenever it waits for the transport or has completed,
\* stands exactly where it would stand had it run alone with the same
\* outcomes of its attempts: the same calls of its timers' end functions,
\* the same retry counter, the same result or error.
C15_ConcurrentCallsIndependent ==
  \A i \in DOMAIN calls :
    calls[i].pc \in {"inflight", "done"}
      => calls[i] = RunAlone(Invoked(calls[i]), calls[i].seen)

\* C15's case: side by side, the first call has retried twice and then
\* failed, and the second call has returned from its first attempt.
C15_Witness ==
  /\ DOMAIN calls = {1, 2}
  /\ Done(calls[1]) /\ Done(calls[2])
  /\ calls[1].retryCounter = 2
  /\ calls[2].retryCounter = 1
  /\ Len(calls[1].reqEnds) = 3
  /\ Len(calls[2].reqEnds) = 1
  /\ calls[1].result.kind = "throw"
  /\ calls[2].result.kind = "return"

(* The constructor *)

\* The code of the first required argument that is falsy, in the order
\* serviceSecret, serviceToken, serviceSlug, serviceUrl; none if all are set.
FirstMissing(args) ==
  IF ~Truthy(args.serviceSecret) THEN Str("ENOSERVICESECRET")
  ELSE IF ~Truthy(args.serviceToken) THEN Str("ENOSERVICETOKEN")
  ELSE IF ~Truthy(args.serviceSlug) THEN Str("ENOSERVICESLUG")
  ELSE IF ~Truthy(args.microserviceUrl) THEN Str("ENOMICROSERVICEURL")
  ELSE Undef

\* The class the constructor's errors are of: the one passed, else the
\* default one.
ClassFor(args) ==
  IF args.errorClass # Undef THEN args.errorClass ELSE Str(DefaultErrorClass)

\* C16: when a required argument is falsy the constructor throws an error
\* with the code of the first falsy one in the order secret, token, slug,
\* url; the error is of the class passed, or of the default class when
\* none is passed, and no client is produced.
C16_ConstructorChecksInOrder ==
  (outs # <<>> /\ FirstMissing(input) # Undef)
    => /\ outs[1].kind = "throw"
       /\ outs[1].value = Undef
       /\ outs[1].err.code = FirstMissing(input)
       /\ outs[1].err.name = ClassFor(input)

\* C16's case: constructed with a custom error class, a secret, no token
\* and no url, the constructor has thrown ENOSERVICETOKEN.
C16_Witness ==
  /\ outs # <<>>
  /\ input.errorClass = Str("CustomError")
  /\ Truthy(input.serviceSecret)
  /\ input.serviceToken = Str("")
  /\ input.microserviceUrl = Undef
  /\ outs[1].kind = "throw"
  /\ outs[1].err.code = Str("ENOSERVICETOKEN")
  /\ outs[1].err.name = Str("CustomError")

(* Request options *)

\* send has built the request options of the call.
Built(c) == c.options # Undef

HasKeys(payload) == payload # Undef /\ KeyCount(payload) > 0

\* useQueryParam, as send passes it
UseQueryParam(c) == c.method = "get"

\* The query parameter that carries a payload.
AsQuery(payload) == [payload |-> Base64(JSONStringify(payload))]

\* C17: in the request options, body is the payload exactly when the
\* payload has a key and useQueryParam is false; searchParams.payload is
\* the base64 of the serialized payload exactly when the payload has a key
\* and useQueryParam is true; without a key neither is set; json is true.
C17_PayloadPlacement ==
  \A i \in DOMAIN calls :
    Built(calls[i])
      => LET c == calls[i]
             o == c.options
         IN /\ (o.body # Undef) <=> (HasKeys(c.payload) /\ ~UseQueryParam(c))
            /\ o.body # Undef => o.body = c.payload
            /\ (o.searchParams # Undef) <=> (HasKeys(c.payload) /\ UseQueryParam(c))
            /\ o.searchParams # Undef => o.searchParams = AsQuery(c.payload)
            /\ o.json = True

\* C17's case: the options of a get with the payload {foo: 'bar'} carry
\* searchParams.payload 'eyJmb28iOiJiYXIifQ==' and no body.
C17_Witness ==
  \E i \in DOMAIN calls :
    /\ Built(calls[i])
    /\ calls[i].method = "get"
    /\ calls[i].payload = Data(<< <<(<<"f", "o", "o">>), (<<"b", "a", "r">>)>> >>)
    /\ calls[i].options.body = Undef
    /\ calls[i].options.searchParams =
         [payload |-> Text(<<"e", "y", "J", "m", "b", "2", "8", "i", "O", "i",
                             "J", "i", "Y", "X", "I", "i", "f", "Q", "=", "=">>)]

\* send has called the transport with options.
Handed(c) == c.gotOptions # Undef

\* C18: the options send hands to the transport carry, as x-access-token,
\* a token whose checksum is that of the call's payload ({} when there is
\* none), and the body or the query parameter they carry is that payload.
C18_TokenMatchesDataSent ==
  \A i \in DOMAIN calls :
    Handed(calls[i])
      => LET c == calls[i]
             g == c.gotOptions
         IN /\ g.token = generateAccessToken(DataOrEmpty(c.payload))
            /\ g.body # Undef => g.body = c.payload
            /\ g.searchParams # Undef => g.searchParams = AsQuery(c.payload)

\* C19: with a payload that has a key, the options handed to the
\* transport carry it as the query parameter and not as body when the
\* method is 'get', and as body and not as query parameter for any other
\* method; a call entered by sendGet (sendPost) stands where send('get')
\* (send('post')) with the same arguments stands.
C19_ChannelFromMethod ==
  \A i \in DOMAIN calls :
    LET c == calls[i]
        g == c.gotOptions
    IN /\ (Handed(c) /\ HasKeys(c.payload))
            => IF c.method = "get"
               THEN /\ g.searchParams = AsQuery(c.payload)
                    /\ c.options.body = Undef
                    /\ g.body # c.payload
               ELSE /\ g.body = c.payload
                    /\ c.options.searchParams = Undef
                    /\ g.searchParams # AsQuery(c.payload)
       /\ (c.entry = "sendGet" /\ c.pc # "sendGet")
            => c = [sendCall([Invoked(c) EXCEPT !.method = "get"]) EXCEPT !.entry = c.entry]
       /\ (c.entry = "sendPost" /\ c.pc # "sendPost")
            => c = [sendCall([Invoked(c) EXCEPT !.method = "post"]) EXCEPT !.entry = c.entry]

\* C19's case: a call entered by sendGet with the payload {foo: 'bar'} and
\* a body in sendOptions has handed the payload over as query parameter.
C19_Witness ==
  \E i \in DOMAIN calls :
    /\ calls[i].entry = "sendGet"
    /\ Handed(calls[i])
    /\ HasKeys(calls[i].payload)
    /\ calls[i].sendOptions # Undef
    /\ calls[i].sendOptions.body = ForeignBody
    /\ calls[i].gotOptions.searchParams = AsQuery(calls[i].payload)

\* C20: in the options handed to the transport, the url and the
\* x-access-token header are those of the request options, whatever
\* sendOptions holds; the retry policy, which the request options do not
\* set, is that of sendOptions when it holds one and the library's
\* otherwise.
C20_RequestOptionsOverride ==
  \A i \in DOMAIN calls :
    Handed(calls[i])
      => LET c == calls[i]
             g == c.gotOptions
         IN /\ g.url = c.options.url
            /\ g.url = Str(ServiceUrl \o ToPath(c.url))
            /\ g.token = c.options.token
            /\ g.retry = IF c.sendOptions # Undef /\ c.sendOptions.retry # Undef
                         THEN c.sendOptions.retry
                         ELSE GotDefaults.retry

\* C20's case: sendOptions held a url, a token and a retry policy of its
\* own; the transport was handed the call's url and token and that retry
\* policy.
C20_Witness ==
  \E i \in DOMAIN calls :
    /\ Handed(calls[i])
    /\ calls[i].sendOptions # Undef
    /\ calls[i].sendOptions.url = Str("http://elsewhere")
    /\ calls[i].sendOptions.token = Str("forged")
    /\ calls[i].gotOptions.url = Str("https://microservice/route")
    /\ calls[i].gotOptions.token # Str("forged")
    /\ calls[i].gotOptions.retry = Str("custom")

(* Timers and logs *)

\* The positions in a sequence that hold an element of a set.
Positions(seq, set) == {k \in DOMAIN seq : seq[k] \in set}

\* The positions at which a recording call called one of the functions fns.
CallsOf(c, fns) == {k \in DOMAIN c.calledWith : c.calledWith[k].fn \in fns}

\* The labels a timer is stopped with for a response or an error x:
\* status_code always, status_message and error_name when x has them.
StopLabels(x) ==
  [status_code |-> x.statusCode,
   status_message |-> IF Truthy(x.statusMessage) THEN x.statusMessage ELSE Absent,
   error_name |-> IF Truthy(x.name) THEN x.name ELSE Absent]

\* The label set of the call: the client's class name, the service's url,
\* the url pattern and the method.
CallLabels(c) ==
  [client_name |-> "FBJWTClient", base_url |-> "https://microservice",
   url |-> c.url, method |-> c.method]

\* The call ended with a terminal failure: the transport rejected and
\* send threw.
FailedTerminally(c) == Caught(c) /\ c.result.kind = "throw"

\* The API-level log entries of a recording call.
APIEntries(c) ==
  {k \in CallsOf(c, {"logger.error"}) :
     c.calledWith[k].arg.name = "jwt_api_request_error"}

\* C21: when send fails terminally with a logger, exactly one API-level
\* entry is logged, with the name 'jwt_api_request_error', the call's
\* client_name, base_url, url and method and the error; it is logged after
\* the per-call timer was stopped with the labels of the failure and
\* before the classifier is called, which throws. Without a logger no
\* API-level entry is logged and the classifier throws all the same.
C21_OneAPILogOnFailure ==
  \A i \in DOMAIN calls :
    FailedTerminally(calls[i])
      => LET c == calls[i]
             stops == CallsOf(c, {"apiMetricsEnd"})
         IN /\ Classified(c)
            /\ c.result.err.name = Str(ErrorClass)
            /\ IF c.logger
               THEN /\ Cardinality(APIEntries(c)) = 1
                    /\ \A k \in APIEntries(c) :
                         /\ c.calledWith[k].arg =
                              [name |-> "jwt_api_request_error",
                               client_name |-> "FBJWTClient",
                               base_url |-> "https://microservice",
                               url |-> c.url, method |-> c.method]
                         /\ c.calledWith[k].of = Told(c.error)
                         /\ \E j \in stops :
                              /\ j < k
                              /\ c.calledWith[j].arg = StopLabels(c.error)
                    /\ \A a \in Positions(c.trace, {"API"}) :
                         \A h \in Positions(c.trace, {"handleRequestError"}) : a < h
               ELSE /\ APIEntries(c) = {}
                    /\ Positions(c.trace, {"API"}) = {}

\* C21's case: a call with a logger was rejected with an error named
\* RequestError after a retry; the API-level entry is the last thing the
\* recorders were called with.
C21_Witness ==
  \E i \in DOMAIN calls :
    /\ FailedTerminally(calls[i])
    /\ calls[i].logger
    /\ calls[i].recording
    /\ calls[i].retryCount = 1
    /\ calls[i].error.name = Str("RequestError")
    /\ Cardinality(APIEntries(calls[i])) = 1
    /\ Len(calls[i].calledWith) \in APIEntries(calls[i])

\* The positions at which a recording call started a per-attempt timer
\* for a retry (every start but the first).
RetryStarts(c) ==
  LET starts == CallsOf(c, {"requestMetrics.startTimer"})
  IN {k \in starts : \E j \in starts : j < k}

\* C26: for every retry the transport decides on, before the request is
\* sent again, the current per-attempt timer is stopped with the labels of
\* the failing error, then the error is logged as
\* 'jwt_client_request_error', then a new per-attempt timer is started
\* with the call's labels.
C26_RetryStopsLogsStarts ==
  \A i \in DOMAIN calls :
    LET c == calls[i]
        w == c.calledWith
    IN /\ \A k \in RetryStarts(c) :
            /\ k >= 3
            /\ w[k - 2].fn = "requestMetricsEnd"
            /\ w[k - 2].arg = StopLabels(w[k - 2].of)
            /\ w[k - 1].fn = "logger.error"
            /\ w[k - 1].arg.name = "jwt_client_request_error"
            /\ w[k].arg = CallLabels(c)
       /\ (Done(c) /\ TransportCalled(c))
            => Cardinality(RetryStarts(c)) = c.retryCount

OpenTimers(c) == {k \in DOMAIN c.reqEnds : c.reqEnds[k] = 0}

\* C28: at most one per-attempt timer of a call is open at any time, and
\* between the starts of two per-attempt timers one is stopped.
C28_OneOpenRequestTimer ==
  \A i \in DOMAIN calls :
    LET c == calls[i]
        starts == Positions(c.trace, {"request.start"})
    IN /\ Cardinality(OpenTimers(c)) <= 1
       /\ \A p \in starts : \A q \in starts :
            p < q => \E j \in Positions(c.trace, {"request.end"}) : p < j /\ j < q

\* C28's case: a call is waiting for its third attempt, which failed
\* twice without a response; only the third timer is open.
C28_Witness ==
  \E i \in DOMAIN calls :
    /\ calls[i].pc = "inflight"
    /\ calls[i].reqEnds = <<1, 1, 0>>

\* C29: the per-call timer and every per-attempt timer of a call are
\* started with the same labels: the client's class name, the service's
\* url, the url pattern as the caller passed it and the method.
C29_StartLabelsConstant ==
  \A i \in DOMAIN calls :
    \A k \in CallsOf(calls[i], {"apiMetrics.startTimer", "requestMetrics.startTimer"}) :
      calls[i].calledWith[k].arg = CallLabels(calls[i])

\* C29's case: a post to '/user/:userId' has started its per-call timer
\* and, with one retry, two per-attempt timers.
C29_Witness ==
  \E i \in DOMAIN calls :
    /\ calls[i].url = "/user/:userId"
    /\ calls[i].method = "post"
    /\ Cardinality(CallsOf(calls[i], {"apiMetrics.startTimer"})) = 1
    /\ Cardinality(CallsOf(calls[i], {"requestMetrics.startTimer"})) = 2

\* C30: every timer is stopped with the labels of the response or error it
\* is stopped for: status_code as it is, status_message and error_name
\* only when there is one; the per-call timer is stopped for the response
\* when send returns it and for the error when send fails.
C30_StopLabelsFromEvent ==
  \A i \in DOMAIN calls :
    LET c == calls[i]
        w == c.calledWith
    IN /\ \A k \in CallsOf(c, {"requestMetricsEnd", "apiMetricsEnd"}) :
            w[k].arg = StopLabels(w[k].of)
       /\ \A k \in CallsOf(c, {"apiMetricsEnd"}) :
            Done(c) => w[k].of = IF c.result.kind = "return"
                                 THEN Told(c.response)
                                 ELSE Told(c.error)

\* C30's case: a 404 without a status message ended the call; the
\* per-attempt timer was stopped with status_code 404 alone, the per-call
\* timer with status_code 404, 'Not Found' and 'HTTPError'.
C30_Witness ==
  \E i \in DOMAIN calls :
    LET c == calls[i]
        w == c.calledWith
    IN /\ Done(c)
       /\ \E k \in CallsOf(c, {"requestMetricsEnd"}) :
            w[k].arg = [status_code |-> Num(404), status_message |-> Absent,
                        error_name |-> Absent]
       /\ \E k \in CallsOf(c, {"apiMetricsEnd"}) :
            w[k].arg = [status_code |-> Num(404), status_message |-> Str("Not Found"),
                        error_name |-> Str("HTTPError")]

(* ------------------------------------------------------------------ *)
(* The cipher and the client's encryption methods *)
(* ------------------------------------------------------------------ *)

\* x is a non-empty string.
NonEmptyString(x) == x.t = "text" /\ x.chars # <<>>

\* The number of bytes a Base64 string holds: six bits for each character
\* before the padding.
RECURSIVE Base64Length(_)
Base64Length(cs) ==
  IF cs = <<>> \/ cs[1] = "=" THEN 0 ELSE 1 + Base64Length(Tail(cs))

DecodedBytes(cs) == (Base64Length(cs) * 6) \div 8

\* The call threw the cipher's own error with the code.
ThrewCipherError(r, code) ==
  /\ r.kind = "throw"
  /\ r.err.name = Str("FBJWTAES256Error")
  /\ r.err.code = Str(code)

\* The call threw the client's error 500 'EINVALIDPAYLOAD'.
ThrewInvalidPayload(r) ==
  /\ r.kind = "throw"
  /\ r.err.name = Str(ErrorClass)
  /\ r.err.code = Num(500)
  /\ r.err.message = Str("EINVALIDPAYLOAD")

\* Call k was given what the earlier call j of fn returned, with the same
\* key.
Reads(k, j, fn) ==
  /\ j < k
  /\ outs[j].fn = fn
  /\ outs[j].key = outs[k].key
  /\ outs[j].result = Returned(outs[k].arg)

\* C22: the client's decrypt and decryptUserIdAndToken throw nothing but
\* the client's error with code 500 and message 'EINVALIDPAYLOAD', and
\* they throw it when the key or the value is no non-empty string, when
\* the value holds fewer than 17 bytes and when the decrypted text is no
\* JSON.
C22_DecryptFailuresAreInvalidPayload ==
  \A k \in DOMAIN outs :
    outs[k].fn \in {"decrypt", "decryptUserIdAndToken"} =>
      LET e == outs[k]
      IN /\ e.result.kind = "throw" => ThrewInvalidPayload(e.result)
         /\ e.result.kind = "return" => e.result.value.t \in {"data", "text"}
         /\ (~NonEmptyString(e.key) \/ ~NonEmptyString(e.arg)) => e.result.kind = "throw"
         /\ (NonEmptyString(e.arg) /\ DecodedBytes(e.arg.chars) < 17)
              => e.result.kind = "throw"
         /\ \A j \in DOMAIN outs :
              (Reads(k, j, "aes256.encrypt") /\ outs[j].arg \in Plaintexts)
                => e.result.kind = "throw"

\* C22's case: a client with a custom error class decrypted the
\* encryption of 'a', which is no JSON, and threw its error.
C22_Witness ==
  /\ ErrorClass = "CustomError"
  /\ \E k \in DOMAIN outs : \E j \in DOMAIN outs :
       /\ outs[k].fn = "decrypt"
       /\ Reads(k, j, "aes256.encrypt")
       /\ outs[j].arg = Text(<<"a">>)
       /\ ThrewInvalidPayload(outs[k].result)

\* A string without unpaired surrogates.
WellFormed(x) == \A n \in DOMAIN x.chars : x.chars[n] # LoneSurrogate

\* What decrypting the result of an encryption returns, for the cipher on
\* the messages for which ok holds, for the client's encrypt and decrypt,
\* and for the user id and token.
RoundTrips(ok(_)) ==
  \A k \in DOMAIN outs : \A j \in DOMAIN outs :
    /\ (outs[k].fn = "aes256.decrypt" /\ Reads(k, j, "aes256.encrypt") /\ ok(outs[j].arg))
         => outs[k].result = Returned(outs[j].arg)
    /\ (outs[k].fn = "decrypt" /\ Reads(k, j, "encrypt"))
         => outs[k].result = Returned(outs[j].arg)
    /\ (outs[k].fn = "decryptUserIdAndToken" /\ Reads(k, j, "encryptUserIdAndToken"))
         => outs[k].result = Returned(UserIdAndToken(outs[j].arg.userId,
                                                     outs[j].arg.userToken))

AnyMessage(x) == TRUE

C24_SeededDeterministic ==
  \A k \in DOMAIN outs : \A j \in DOMAIN outs :
    /\ (outs[k].fn \in {"aes256.encrypt", "encrypt"} /\ outs[j].fn = outs[k].fn
        /\ outs[j].key = outs[k].key /\ outs[j].arg = outs[k].arg
        /\ outs[j].seed = outs[k].seed /\ Truthy(outs[k].seed))
         => outs[j].result = outs[k].result
    /\ (outs[k].fn = "encryptUserIdAndToken" /\ outs[j].fn = outs[k].fn
        /\ outs[j].key = outs[k].key /\ outs[j].arg = outs[k].arg)
         => outs[j].result = outs[k].result

\* C25: the cipher checks the key, then the value: encrypt throws
\* ENOENCRYPTKEY, else ENOENCRYPTVALUE; decrypt throws ENODECRYPTKEY, else
\* ENODECRYPTVALUE, else a TypeError without a code when the value holds
\* fewer than 17 bytes; else they return.
C25_CipherValidatesKeyFirst ==
  \A k \in DOMAIN outs :
    LET e == outs[k]
    IN /\ e.fn = "aes256.encrypt" =>
            IF ~NonEmptyString(e.key) THEN ThrewCipherError(e.result, "ENOENCRYPTKEY")
            ELSE IF ~NonEmptyString(e.arg)
            THEN ThrewCipherError(e.result, "ENOENCRYPTVALUE")
            ELSE e.result.kind = "return"
       /\ e.fn = "aes256.decrypt" =>
            IF ~NonEmptyString(e.key) THEN ThrewCipherError(e.result, "ENODECRYPTKEY")
            ELSE IF ~NonEmptyString(e.arg)
            THEN ThrewCipherError(e.result, "ENODECRYPTVALUE")
            ELSE IF DecodedBytes(e.arg.chars) < 17
            THEN /\ e.result.kind = "throw"
                 /\ e.result.err.name = Str("TypeError")
                 /\ e.result.err.code = Undef
            ELSE e.result.kind = "return"

\* C25's case: encrypt and decrypt were called without a key and without a
\* value, and threw for the key.
C25_Witness ==
  \E k \in DOMAIN outs : \E j \in DOMAIN outs :
    /\ outs[j].fn = "aes256.encrypt"
    /\ outs[j].key = Undef /\ outs[j].arg = Undef
    /\ ThrewCipherError(outs[j].result, "ENOENCRYPTKEY")
    /\ outs[k].fn = "aes256.decrypt"
    /\ outs[k].key = Undef /\ outs[k].arg = Undef
    /\ ThrewCipherError(outs[k].result, "ENODECRYPTKEY")

(* ------------------------------------------------------------------ *)
(* The classifier's normal form *)
(* ------------------------------------------------------------------ *)

\* C31: when handleRequestError chooses a message (the error is not of the
\* client's kind and its statusCode is not 404), an object-valued body is
\* the error object the message is chosen from, whatever err.error was;
\* with a body that is no object the message is chosen from err.error as
\* it was, or without an error object if there was none.
C31_ObjectBodyIsErrorObject ==
  \A k \in 1..Len(outs) :
    LET e == InputOf(k)
        message == outs[k].err.message
    IN (~OwnKind(e) /\ e.statusCode # Num(404)) =>
         /\ IsObject(e.body) => message = NameElseCode(e.body)
         /\ (~IsObject(e.body) /\ Truthy(e.error)) => message = NameElseCode(e.error)
         /\ (~IsObject(e.body) /\ ~Truthy(e.error)) =>
              message = IF HasStatusCode(e) THEN e.statusCode ELSE CodeElseNoError(e)

\* C31's case: an error whose body is an object named 'ENOTFOUND' and
\* whose error is an object named 'ECONNREFUSED' was classified with the
\* message 'ENOTFOUND'.
C31_Witness ==
  /\ Len(outs) >= 1
  /\ ~OwnKind(input)
  /\ ~HasStatusCode(input)
  /\ PropName(input.body) = Str("ENOTFOUND")
  /\ PropName(input.error) = Str("ECONNREFUSED")
  /\ outs[1].err.message = Str("ENOTFOUND")

(* ------------------------------------------------------------------ *)
(* Request options: one channel *)
(* ------------------------------------------------------------------ *)

\* C32 as stated: the request options carry exactly one of body and
\* searchParams.
C32_Original ==
  \A i \in DOMAIN calls :
    Built(calls[i])
      => (calls[i].options.body # Undef) # (calls[i].options.searchParams # Undef)

\* C32, amended: the request options never carry both body and
\* searchParams; they carry one of them exactly when the payload has a
\* key, and neither when there is no payload or the payload has no key.
C32_AtMostOneChannel ==
  \A i \in DOMAIN calls :
    Built(calls[i])
      => LET o == calls[i].options
         IN /\ ~(o.body # Undef /\ o.searchParams # Undef)
            /\ (o.body # Undef \/ o.searchParams # Undef) <=> HasKeys(calls[i].payload)

\* C32's case: options were built for a post with the payload
\* {a: 'b', b: 'a'} (a body, no searchParams).
C32_Witness ==
  \E i \in DOMAIN calls :
    /\ Built(calls[i])
    /\ calls[i].method = "post"
    /\ KeyCount(DataOrEmpty(calls[i].payload)) = 2
    /\ calls[i].options.body = calls[i].payload
    /\ calls[i].options.searchParams = Undef

(* ------------------------------------------------------------------ *)
(* The client's configuration *)
(* ------------------------------------------------------------------ *)

\* The constructor has returned a client.
Constructed == outs # <<>> /\ outs[1].kind = "return"

\* The four fields of the client's configuration.
Configuration ==
  <<outs[1].value.serviceSecret, outs[1].value.serviceToken,
    outs[1].value.serviceSlug, outs[1].value.serviceUrl>>

\* C33: the four fields of a constructed client are what the constructor
\* was passed and are none of them empty, its error class is the class
\* passed or the default one, and no step of any of its operations changes
\* the fields or the error class.
C33_ConfigurationFixed ==
  /\ [](Constructed =>
          /\ Configuration = <<input.serviceSecret, input.serviceToken,
                               input.serviceSlug, input.microserviceUrl>>
          /\ \A k \in 1..4 : Truthy(Configuration[k])
          /\ ErrorClass = ClassFor(input).v)
  /\ [][Constructed => (Constructed' /\ Configuration' = Configuration
                        /\ ErrorClass' = ErrorClass)]_vars

\* C33's case: on a constructed client the recorders have been replaced,
\* a method has been called and a send invocation has ended.
C33_Witness ==
  /\ Constructed
  /\ outs[1].value.apiMetrics = "apiMetrics"
  /\ outs[1].value.requestMetrics = "requestMetrics"
  /\ Len(outs) = 2
  /\ calls # <<>>
  /\ Done(calls[1])

\* C34: every error the classifier produces (it throws a new error for
\* every input that is not of the client's kind) has a code that is a
\* number or a string and a message that is a string.
C34_CodeAndMessageTyped ==
  \A k \in 1..Len(outs) :
    ~OwnKind(InputOf(k))
      => /\ outs[k].kind = "throw"
         /\ outs[k].err.code.t \in {"number", "string"}
         /\ outs[k].err.message.t = "string"

\* C35: when the transport ends every attempt and retries at most
\* MaxRetries times, every send invocation ends, with a value or an error;
\* the transport sees no attempt beyond its own retries, a call that has
\* left the transport never goes back to it, and a call that is neither
\* waiting for the transport nor ended can always run on.
C35_SendCompletes ==
  /\ <>(\A i \in DOMAIN calls :
          Done(calls[i]) /\ calls[i].result.kind \in {"return", "throw"})
  /\ [](\A i \in DOMAIN calls :
          /\ calls[i].attempts <= MaxRetries + 1
          /\ calls[i].pc \notin {"inflight", "done"} => ENABLED <<Next>>_vars)
  /\ [][\A i \in DOMAIN calls :
          calls[i].pc \in {"resolved", "rejected", "done"}
            => /\ calls'[i].pc = "done"
               /\ calls'[i].attempts = calls[i].attempts]_vars

\* C35's case: a call has ended with an error after the transport made
\* every retry it was allowed.
C35_Witness ==
  \E i \in DOMAIN calls :
    /\ Done(calls[i])
    /\ calls[i].attempts = MaxRetries + 1
    /\ calls[i].result.kind = "throw"

\* C36: a send invocation whose context lacks a placeholder of the URL
\* pattern ends in its first step with the TypeError of the URL building,
\* and has then started no timer, logged nothing and not called the
\* transport.
C36_MissingPlaceholderFailsFast ==
  \A i \in DOMAIN calls :
    ~(Placeholders(calls[i].url) \subseteq calls[i].context)
      => /\ calls[i].pc \in {"send", "done"}
         /\ Done(calls[i]) => calls[i].result = Thrown(TypeError)
         /\ calls[i].apiStarts = 0
         /\ calls[i].reqEnds = <<>>
         /\ calls[i].log = <<>>
         /\ calls[i].trace = <<>>
         /\ calls[i].attempts = 0

\* C36's case: a call for '/user/:userId' with an empty context has ended.
C36_Witness ==
  \E i \in DOMAIN calls :
    /\ calls[i].url = "/user/:userId"
    /\ calls[i].context = {}
    /\ calls[i].logger
    /\ Done(calls[i])
    /\ calls[i].result.kind = "throw"

====
